---- MODULE Spec2Model ----
(***************************************************************************)
(* Hackathon tracker: the webhook server (gh_test_db.py), its verification *)
(* gateway (server.py) and the database helper (db/db.py).                 *)
(*                                                                         *)
(* Text is modelled at character level: a Python str is a sequence of      *)
(* one-character strings, so that regex searches, str(int), isoformat(),   *)
(* json.dumps, substring tests and string comparison are computed rather   *)
(* than assumed.                                                           *)
(***************************************************************************)
EXTENDS Integers, Sequences, FiniteSets, TLC

(***************************************************************************)
(* Bounds of the model.                                                    *)
(***************************************************************************)
\* requests handled in one behaviour
MaxRequests == 2
\* bug numbers the gateway is asked about: 0..MaxBugId
MaxBugId == 3
\* entries of the list handed to a leaderboard sync
MaxEntries == 2
\* lexicon words concatenated into one commit message (extract_bug_id inputs)
MaxWords == 3

(***************************************************************************)
(* Characters and strings.                                                 *)
(***************************************************************************)
Digits == <<"0", "1", "2", "3", "4", "5", "6", "7", "8", "9">>

IsDigit(c) == \E d \in 1..10 : Digits[d] = c

DigitVal(c) == (CHOOSE d \in 1..10 : Digits[d] = c) - 1

Capitals ==
    <<"A", "B", "C", "D", "E", "F", "G", "H", "I", "J", "K", "L", "M",
      "N", "O", "P", "Q", "R", "S", "T", "U", "V", "W", "X", "Y", "Z">>

Letters ==
    <<"a", "b", "c", "d", "e", "f", "g", "h", "i", "j", "k", "l", "m",
      "n", "o", "p", "q", "r", "s", "t", "u", "v", "w", "x", "y", "z">>

\* str.lower() / re.IGNORECASE folding
Lower(c) ==
    IF \E k \in 1..26 : Capitals[k] = c
    THEN Letters[CHOOSE k \in 1..26 : Capitals[k] = c]
    ELSE c

\* code point order of the characters that occur in timestamps
Ord(c) == IF c = "." THEN 46 ELSE IF IsDigit(c) THEN 48 + DigitVal(c) ELSE 0

RECURSIVE StrLess(_, _)
\* Python's a < b on str: lexicographic by code point, a proper prefix is smaller
StrLess(a, b) ==
    IF b = << >> THEN FALSE
    ELSE IF a = << >> THEN TRUE
    ELSE IF Ord(Head(a)) /= Ord(Head(b)) THEN Ord(Head(a)) < Ord(Head(b))
    ELSE StrLess(Tail(a), Tail(b))

\* Python's needle in hay on str
Contains(hay, needle) ==
    \E i \in 1..(Len(hay) - Len(needle) + 1) :
        SubSeq(hay, i, i + Len(needle) - 1) = needle

\* str.startswith
StartsWith(s, p) == Len(s) >= Len(p) /\ SubSeq(s, 1, Len(p)) = p

RECURSIVE IntToStr(_)
\* str(n) / f"{n}" for n >= 0: decimal digits, no leading zeros
IntToStr(n) ==
    IF n < 10 THEN <<Digits[n + 1]>>
    ELSE IntToStr(n \div 10) \o <<Digits[(n % 10) + 1]>>

RECURSIVE StrToInt(_)
\* int(s) on a non-empty string of decimal digits (leading zeros allowed)
StrToInt(s) ==
    IF s = << >> THEN 0
    ELSE 10 * StrToInt(SubSeq(s, 1, Len(s) - 1)) + DigitVal(s[Len(s)])

\* the mutant splits at the first two separators only and keeps the rest
SplitTwice(s, sep) ==
    LET H == {k \in 1..Len(s) : s[k] = sep}
        i == CHOOSE k \in H : \A h \in H : k <= h
        j == CHOOSE k \in H \ {i} : \A h \in H \ {i} : k <= h
    IN  IF H = {} THEN <<s>>
        ELSE IF H = {i} THEN <<SubSeq(s, 1, i - 1), SubSeq(s, i + 1, Len(s))>>
        ELSE <<SubSeq(s, 1, i - 1), SubSeq(s, i + 1, j - 1), SubSeq(s, j + 1, Len(s))>>

RECURSIVE Split(_, _)
\* s.split(sep) for a one-character separator: always at least one segment
Split(s, sep) ==
    IF \A i \in 1..Len(s) : s[i] /= sep THEN <<s>>
    ELSE LET i == CHOOSE k \in 1..Len(s) :
                      s[k] = sep /\ \A j \in 1..(k - 1) : s[j] /= sep
         IN  <<SubSeq(s, 1, i - 1)>> \o Split(SubSeq(s, i + 1, Len(s)), sep)

RECURSIVE ZeroPad(_, _)
\* "%0<width>d" % n
ZeroPad(n, width) ==
    IF width = 0 THEN << >>
    ELSE ZeroPad(n \div 10, width - 1) \o <<Digits[(n % 10) + 1]>>

(***************************************************************************)
(* Timestamps.  datetime.now() is a wall-clock reading <<second, micro>>;  *)
(* isoformat() prints "...:SS" and appends ".ffffff" only when the         *)
(* microsecond is not zero.  The date-hour-minute prefix is the same for   *)
(* every reading of the model and is left out.                             *)
(***************************************************************************)
Times == {<<0, 0>>, <<0, 1>>, <<1, 0>>}

isoformat(t) ==
    ZeroPad(t[1], 2) \o (IF t[2] = 0 THEN << >> ELSE <<".">> \o ZeroPad(t[2], 6))

\* chronological order of two readings
TimeBefore(t, u) == t[1] < u[1] \/ (t[1] = u[1] /\ t[2] < u[2])

(***************************************************************************)
(* extract_bug_id: four regex alternatives tried in order with re.search   *)
(* under re.IGNORECASE.  A pattern is a keyword, an optional run [#\s]*    *)
(* and the capture group (\d+).                                            *)
(***************************************************************************)
BugPatternsHashFirst ==
    << [kw |-> <<"#">>, sep |-> FALSE],
       [kw |-> <<"b", "u", "g">>, sep |-> TRUE],
       [kw |-> <<"f", "i", "x">>, sep |-> TRUE],
       [kw |-> <<"B", "U", "G">>, sep |-> TRUE] >>

BugPatterns ==
    << [kw |-> <<"b", "u", "g">>, sep |-> TRUE],
       [kw |-> <<"f", "i", "x">>, sep |-> TRUE],
       [kw |-> <<"#">>, sep |-> FALSE],
       [kw |-> <<"B", "U", "G">>, sep |-> TRUE] >>

\* the class [#\s]; the model's only whitespace character is the space
IsSepChar(c) == c \in {"#", " "}

RECURSIVE SkipSeps(_, _)
\* greedy [#\s]* from position i: the first position past the run
SkipSeps(s, i) ==
    IF i <= Len(s) /\ IsSepChar(s[i]) THEN SkipSeps(s, i + 1) ELSE i

RECURSIVE SkipDigits(_, _)
\* greedy \d* from position i: the first position past the run
SkipDigits(s, i) ==
    IF i <= Len(s) /\ IsDigit(s[i]) THEN SkipDigits(s, i + 1) ELSE i

\* the pattern anchored at position i: the text of group 1, << >> when it fails
MatchAt(s, i, p) ==
    IF /\ i + Len(p.kw) - 1 <= Len(s)
       /\ \A k \in 1..Len(p.kw) : Lower(s[i + k - 1]) = Lower(p.kw[k])
    THEN LET j == IF p.sep THEN SkipSeps(s, i + Len(p.kw)) ELSE i + Len(p.kw)
             e == SkipDigits(s, j)
         IN  IF e > j THEN SubSeq(s, j, e - 1) ELSE << >>
    ELSE << >>

RECURSIVE re_search(_, _, _)
\* re.search(p, s): start positions are tried left to right from i
re_search(s, i, p) ==
    IF i > Len(s) THEN << >>
    ELSE IF MatchAt(s, i, p) /= << >> THEN MatchAt(s, i, p)
    ELSE re_search(s, i + 1, p)

\* Python's None where an int is expected
NoBug == -1

RECURSIVE extract_from(_, _)
\* the for loop over patterns, from the k-th on
extract_from(message, k) ==
    IF k > Len(BugPatterns) THEN NoBug
    ELSE LET m == re_search(message, 1, BugPatterns[k])
         IN  IF m /= << >> THEN StrToInt(m) ELSE extract_from(message, k + 1)

extract_bug_id(message) == extract_from(message, 1)

(***************************************************************************)
(* JSON text, as far as the gateway and the tracker produce and test it.   *)
(***************************************************************************)
Q == "\""

\* f"BUG{bug_id}"
BugKey(bug_id) == <<"B", "U", "G">> \o IntToStr(bug_id)

Quoted(s) == <<Q>> \o s \o <<Q>>

StrTrue == <<"t", "r", "u", "e">>

StrFalse == <<"f", "a", "l", "s", "e">>

\* json.dumps({key: value}) with the default separators (", ", ": ")
json_dumps_pair(key, value) ==
    <<"{">> \o Quoted(key) \o <<":", " ">> \o Quoted(value) \o <<"}">>

\* the same object written without the space after the colon
CompactPair(key, value) ==
    <<"{">> \o Quoted(key) \o <<":">> \o Quoted(value) \o <<"}">>

RECURSIVE SkipWs(_, _)
SkipWs(s, i) == IF i <= Len(s) /\ s[i] = " " THEN SkipWs(s, i + 1) ELSE i

\* a JSON string at position i: the position after its closing quote, 0 if none
\* (the model's texts hold no backslash escapes)
ParseString(s, i) ==
    IF i <= Len(s) /\ s[i] = Q /\ (\E j \in (i + 1)..Len(s) : s[j] = Q)
    THEN (CHOOSE j \in (i + 1)..Len(s) :
              s[j] = Q /\ \A k \in (i + 1)..(j - 1) : s[k] /= Q) + 1
    ELSE 0

RECURSIVE ParseValue(_, _)
RECURSIVE ParseMembers(_, _)
\* a JSON value at position i: the position after it, 0 when there is none.
\* Strings and objects only: the model's texts hold no numbers, arrays or
\* literals outside strings.
ParseValue(s, i) ==
    IF i > Len(s) THEN 0
    ELSE IF s[i] = Q THEN ParseString(s, i)
    ELSE IF s[i] = "{"
         THEN LET j == SkipWs(s, i + 1)
              IN  IF j <= Len(s) /\ s[j] = "}" THEN j + 1 ELSE ParseMembers(s, j)
    ELSE 0

\* "key": value pairs up to the closing brace, from the start of a key
ParseMembers(s, i) ==
    LET k == ParseString(s, i)
        c == SkipWs(s, k)
        v == ParseValue(s, SkipWs(s, c + 1))
        e == SkipWs(s, v)
    IN  IF k = 0 \/ c > Len(s) THEN 0
        ELSE IF s[c] /= ":" \/ v = 0 \/ e > Len(s) THEN 0
        ELSE IF s[e] = "}" THEN e + 1
        ELSE IF s[e] = "," THEN ParseMembers(s, SkipWs(s, e + 1))
        ELSE 0

\* json.loads(text) does not raise
IsJson(s) ==
    LET v == ParseValue(s, SkipWs(s, 1))
    IN  v /= 0 /\ SkipWs(s, v) = Len(s) + 1

IsBrace(c) == c \in {"{", "}"}

\* \{[^{}]*"[^{}]*"[^{}]*\} anchored at position i: the match, << >> if none
BraceMatchAt(s, i) ==
    IF s[i] = "{" /\ (\E j \in (i + 1)..Len(s) : IsBrace(s[j]))
    THEN LET j == CHOOSE j \in (i + 1)..Len(s) :
                      IsBrace(s[j]) /\ \A k \in (i + 1)..(j - 1) : ~IsBrace(s[k])
         IN  IF s[j] = "}" /\ Cardinality({k \in (i + 1)..(j - 1) : s[k] = Q}) >= 2
             THEN SubSeq(s, i, j)
             ELSE << >>
    ELSE << >>

\* the mutant takes the last match in the text
brace_search_last(s, i) ==
    LET C == {k \in i..Len(s) : BraceMatchAt(s, k) /= << >>}
    IN  IF C = {} THEN << >>
        ELSE BraceMatchAt(s, CHOOSE k \in C : \A m \in C : m <= k)

RECURSIVE brace_search(_, _)
\* re.search of that pattern from position i on
brace_search(s, i) ==
    IF i > Len(s) THEN << >>
    ELSE IF BraceMatchAt(s, i) /= << >> THEN BraceMatchAt(s, i)
    ELSE brace_search(s, i + 1)

InvalidResponse ==
    json_dumps_pair(<<"e", "r", "r", "o", "r">>,
                    <<"i", "n", "v", "a", "l", "i", "d", "_",
                      "r", "e", "s", "p", "o", "n", "s", "e">>)

clean_llm_response(response_text) ==
    IF IsJson(response_text) THEN response_text
    ELSE IF brace_search(response_text, 1) /= << >>
         THEN brace_search(response_text, 1)
    ELSE InvalidResponse

(***************************************************************************)
(* The verification gateway, POST /verify of server.py.                    *)
(*   det: what DeterministicVerifier.verify_bug_fix returned, Optional[bool]*)
(*   llm: what the generateContent call did                                *)
(***************************************************************************)
DetResults == {"True", "False", "None"}

\* answers of the language model for bug key k: arbitrary text
LlmContents(k) ==
    { json_dumps_pair(k, StrTrue),
      CompactPair(k, StrTrue),
      json_dumps_pair(k, StrFalse),
      <<"o", "k", " ">> \o json_dumps_pair(k, StrTrue),
      <<"{", Q, "a", Q, ":", " ">> \o json_dumps_pair(k, StrFalse) \o <<"}", " ", "x">>,
      json_dumps_pair(k, StrFalse) \o <<" ">> \o json_dumps_pair(k, StrTrue),
      <<"n", "o">> }

\* outcomes of the HTTP call to the model endpoint
LlmOutcomes(k) ==
    {[kind |-> "text", content |-> c, status |-> 200] : c \in LlmContents(k)}
      \cup {[kind |-> "http_error", content |-> << >>, status |-> 429],
            [kind |-> "no_candidates", content |-> << >>, status |-> 200],
            [kind |-> "bad_structure", content |-> << >>, status |-> 200],
            [kind |-> "exception", content |-> << >>, status |-> 0]}

GwDeterministic(bug_to_check, det) ==
    [status |-> 200,
     verification_result |->
         json_dumps_pair(bug_to_check, IF det = "True" THEN StrTrue ELSE StrFalse),
     method |-> "deterministic",
     llm_contacted |-> FALSE]

GwLlm(llm) ==
    IF llm.kind = "text"
    THEN [status |-> 200,
          verification_result |-> clean_llm_response(llm.content),
          method |-> "llm",
          llm_contacted |-> TRUE]
    ELSE [status |-> IF llm.kind = "http_error" THEN llm.status ELSE 500,
          verification_result |-> << >>,
          method |-> "",
          llm_contacted |-> TRUE]

\* the mutant asks the model even when the deterministic pass was conclusive
verify_bug_fix_always_llm(bug_to_check, det, llm) == GwLlm(llm)

\* the handler: deterministic pass first, the model only when it is uncertain
verify_bug_fix(bug_to_check, det, llm) ==
    IF det /= "None" THEN GwDeterministic(bug_to_check, det) ELSE GwLlm(llm)

(***************************************************************************)
(* The tracker's world (gh_test_db.py).                                    *)
(*   bugFixes       teams/<team>/bug-fixes/bug-<n>.json, keyed <<team, n>> *)
(*   progress       teams/<team>/progress.json, keyed by team              *)
(*   leaderboard    leaderboard.json                                       *)
(*   dbLeaderboard  the database's leaderboard collection, by team_id      *)
(*   dbManualReview the manual-review collection, by document_id           *)
(* A file or a row exists exactly when its key is in the map's domain.     *)
(* The write-only updated_at stamps of database rows are not tracked.      *)
(***************************************************************************)
VARIABLES
    bugFixes, progress, leaderboard, dbLeaderboard, dbManualReview,
    dbUp,        \* setup_mongodb connected: the collections are not None
    teamOrder,   \* the order in which os.listdir("teams") lists team directories
    hook,        \* the webhook request being handled, commit by commit
    response,    \* the last HTTP response sent
    lastReq,     \* the last request received
    lastCall,    \* the log_bug_fix / re-verification just made: inputs and effects
    calls,       \* the log_bug_fix invocations of the current webhook request
    nreq,
    msg, bugId, phase,     \* extract_bug_id applied to one message
    gwReq, gwResp,         \* one request to the gateway and its response
    threads,               \* two log_bug_fix calls in flight at once
    det                    \* one call of the deterministic verifier

vars ==
    << bugFixes, progress, leaderboard, dbLeaderboard, dbManualReview, dbUp,
       teamOrder, hook, response, lastReq, lastCall, calls,
       nreq, msg, bugId, phase, gwReq, gwResp, threads, det >>

worldVars == << bugFixes, progress, leaderboard, dbLeaderboard, dbManualReview >>

EmptyMap == [x \in {} |-> 0]

Put(f, k, v) == [x \in (DOMAIN f) \cup {k} |-> IF x = k THEN v ELSE f[x]]

\* the permutations of a finite set, as sequences
Perms(S) ==
    {p \in [1..Cardinality(S) -> S] : \A x \in S : \E i \in DOMAIN p : p[i] = x}

T7 == <<"7">>

T9 == <<"9">>

Teams == {T7, T9}

\* bug numbers that get a submission file; bug 0 is referenced by a commit too
Bugs == {1, 2}

Nlp == <<"n", "l", "p">>

Cv == <<"c", "v">>

RepoTeam7 == <<"t", "e", "a", "m", "-", "7", "-", "n", "l", "p">>

RepoTeam9 == <<"t", "e", "a", "m", "-", "9", "-", "c", "v">>

RepoRandom == <<"r", "a", "n", "d", "o", "m", "-", "r", "e", "p", "o">>

RepoShort == <<"t", "e", "a", "m", "-", "7">>

RepoLong == <<"t", "e", "a", "m", "-", "7", "-", "n", "l", "p", "-", "x">>

RepoNames == {RepoTeam7, RepoTeam9, RepoRandom, RepoShort, RepoLong}

\* what extract_code_changes returned: None, [] or a list of changed files
CodeNone == [extracted |-> FALSE, files |-> << >>]

CodeEmpty == [extracted |-> TRUE, files |-> << >>]

CodeSome ==
    [extracted |-> TRUE,
     files |-> << [filename |-> <<"a", ".", "p", "y">>,
                   changes |-> << [added |-> << <<"x", ">", "=", "5">> >>,
                                   removed |-> << <<"x", ">", "5">> >>] >>] >>]

CodeValues == {CodeNone, CodeEmpty, CodeSome}

\* Python truthiness of a code_changes value
Truthy(code_changes) == code_changes.extracted /\ code_changes.files /= << >>

Pending == <<"p", "e", "n", "d", "i", "n", "g">>

EmptyObject == <<"{", "}">>

(***************************************************************************)
(* verify_with_llm: the POST to the gateway and what comes back.           *)
(***************************************************************************)
\* the tracker's reading of the gateway's HTTP response
verify_with_llm_result(gw) ==
    IF gw.status = 200
    THEN [text |-> gw.verification_result, method |-> gw.method]
    ELSE [text |-> EmptyObject, method |-> "error"]

\* every (text, method) verify_with_llm can return for a bug: the gateway's
\* answers over all verifier and model outcomes, or the POST itself failing
VerifyOutcomes ==
    [b \in Bugs |->
        {verify_with_llm_result(verify_bug_fix(BugKey(b), d, l)) :
             d \in DetResults, l \in LlmOutcomes(BugKey(b))}
          \cup {[text |-> EmptyObject, method |-> "error"]}]

\* the tracker's test of the answer in log_bug_fix: either spelling counts
WebhookAccepts(llm_result, bug_id) ==
    \/ Contains(llm_result, Quoted(BugKey(bug_id)) \o <<":", " ">> \o Quoted(StrTrue))
    \/ Contains(llm_result, Quoted(BugKey(bug_id)) \o <<":">> \o Quoted(StrTrue))

\* the test in manually_verify_bug: only the spelling with the space
ManualAccepts(llm_response, bug_id) ==
    Contains(llm_response, Quoted(BugKey(bug_id)) \o <<":", " ">> \o Quoted(StrTrue))

get_bug_points(domain, bug_id) == 10

\* the mutant verifies as soon as there is a diff
ShouldVerifyCodeOnly(code_changes, bug_description) == Truthy(code_changes)

\* if code_changes and bug_description:
ShouldVerify(code_changes, bug_description) ==
    Truthy(code_changes) /\ bug_description

(***************************************************************************)
(* What the outside world does during one log_bug_fix or re-verification:  *)
(*   code    extract_code_changes' result (git clone / git show)           *)
(*   desc    get_bug_description found the bug in domains/<d>/bugs.json    *)
(*   res     verify_with_llm's result, when it is called                   *)
(*   now     the reading of datetime.now()                                 *)
(*   dbFail  the database writes of this call raise (connection lost)      *)
(***************************************************************************)
NoResult == [text |-> Pending, method |-> "none"]

\* res is drawn only when the gateway is called: in the other cases it is
\* not read
EnvSet(bug_id, codes, descs, outcomes, times, fails) ==
    UNION {
        {[code |-> cd[1], desc |-> cd[2], res |-> r, now |-> t, dbFail |-> f] :
            r \in (IF ShouldVerify(cd[1], cd[2]) THEN outcomes ELSE {NoResult}),
            t \in times,
            f \in fails} :
        cd \in codes \X descs}

World ==
    [bugFixes |-> bugFixes, progress |-> progress, leaderboard |-> leaderboard,
     dbLeaderboard |-> dbLeaderboard, dbManualReview |-> dbManualReview]

(***************************************************************************)
(* update_mongodb_leaderboard: upsert one row per entry, delete nothing.   *)
(***************************************************************************)
RECURSIVE UpsertAll(_, _)
\* bulk_write of UpdateOne({"team_id": id}, {"$set": entry}, upsert=True)
UpsertAll(coll, entries) ==
    IF entries = << >> THEN coll
    ELSE UpsertAll(IF Head(entries).team_id = << >> THEN coll
                   ELSE Put(coll, Head(entries).team_id, Head(entries)),
                   Tail(entries))

\* the mutant loses the leaderboard file when the database cannot be written
update_mongodb_leaderboard_or_reset(W, entries, dbFail) ==
    IF ~dbUp \/ dbFail THEN [W EXCEPT !.leaderboard = << >>]
    ELSE IF entries = << >> THEN W
    ELSE [W EXCEPT !.dbLeaderboard = UpsertAll(@, entries)]

\* the mutant deletes the rows of the teams that are not in the list
update_mongodb_leaderboard_deleting(W, entries, dbFail) ==
    IF ~dbUp \/ dbFail THEN W
    ELSE LET ids == {entries[i].team_id : i \in DOMAIN entries} \ {<< >>}
             all == UpsertAll(W.dbLeaderboard, entries)
         IN  [W EXCEPT !.dbLeaderboard = [x \in (DOMAIN all) \cap ids |-> all[x]]]

update_mongodb_leaderboard(W, entries, dbFail) ==
    IF ~dbUp THEN W
    ELSE IF entries = << >> THEN W
    ELSE IF dbFail THEN W
    ELSE [W EXCEPT !.dbLeaderboard = UpsertAll(@, entries)]

(***************************************************************************)
(* db.upsert_leaderboard (db/db.py): upsert, then delete the other teams.  *)
(***************************************************************************)
Restrict(f, S) == [x \in (DOMAIN f) \cap S |-> f[x]]

\* entry.get("team_id") or entry.get("team") or entry.get("id"): a key that
\* is missing or empty is << >>
ResolveTeamId(entry) ==
    IF entry.team_id /= << >> THEN entry.team_id
    ELSE IF entry.team /= << >> THEN entry.team
    ELSE entry.id

RECURSIVE BulkUpsert(_, _)
\* UpdateOne({"team_id": id}, {"$set": {**entry, "team_id": id}}, upsert=True)
\* for every entry that has an id (entries carry the same keys, so $set
\* rewrites the whole row)
BulkUpsert(coll, entries) ==
    IF entries = << >> THEN coll
    ELSE LET e == Head(entries)
             id == ResolveTeamId(e)
         IN  BulkUpsert(IF id = << >> THEN coll
                        ELSE Put(coll, id, [e EXCEPT !.team_id = id]),
                        Tail(entries))

\* the mutant is the sync that never deletes
upsert_leaderboard_upsert_only(coll, entries) == BulkUpsert(coll, entries)

upsert_leaderboard(coll, entries) ==
    IF entries = << >> THEN EmptyMap
    ELSE Restrict(BulkUpsert(coll, entries),
                  {ResolveTeamId(entries[i]) : i \in DOMAIN entries} \ {<< >>})

(***************************************************************************)
(* update_manual_review_collection                                         *)
(***************************************************************************)
\* f"{team_id}_bug_{bug_id}"
DocumentId(team_id, bug_id) ==
    team_id \o <<"_", "b", "u", "g", "_">> \o IntToStr(bug_id)

update_manual_review_collection(W, team_id, bug_id, submission, dbFail) ==
    IF ~dbUp THEN W
    ELSE IF dbFail THEN W
    ELSE [W EXCEPT !.dbManualReview =
              Put(@, DocumentId(team_id, bug_id), submission)]

(***************************************************************************)
(* update_leaderboard                                                      *)
(***************************************************************************)
\* the mutant forgets the minus sign: points ascending
KeyLessAscending(a, b) ==
    \/ a.total_points < b.total_points
    \/ a.total_points = b.total_points /\ StrLess(a.last_submission, b.last_submission)

\* sort key (-total_points, last_submission or ""): a sorts strictly before b
KeyLess(a, b) ==
    \/ a.total_points > b.total_points
    \/ a.total_points = b.total_points /\ StrLess(a.last_submission, b.last_submission)

RECURSIVE InsertSorted(_, _)
\* e goes after every element that does not sort strictly after it
InsertSorted(sorted, e) ==
    IF sorted = << >> THEN <<e>>
    ELSE IF KeyLess(e, Head(sorted)) THEN <<e>> \o sorted
    ELSE <<Head(sorted)>> \o InsertSorted(Tail(sorted), e)

RECURSIVE list_sort(_)
\* list.sort(key=...): stable, so equal keys keep their listing order
list_sort(l) ==
    IF l = << >> THEN << >>
    ELSE InsertSorted(list_sort(SubSeq(l, 1, Len(l) - 1)), l[Len(l)])

LeaderboardEntry(prog) ==
    [team_id |-> prog.team_id,
     bugs_solved |-> prog.verified_submissions,
     total_points |-> prog.total_points,
     last_submission |-> prog.last_submission,
     domain |-> prog.domain,
     rank |-> 0]

\* the team directories that hold a progress.json, in listing order
ListProgress(W) ==
    LET Has(td) == td \in DOMAIN W.progress
    IN  SelectSeq(teamOrder, Has)

\* the mutant patches the previous leaderboard instead of starting from []
LoadEntriesAppend(W) ==
    LET tds == ListProgress(W)
    IN  W.leaderboard \o [i \in 1..Len(tds) |-> LeaderboardEntry(W.progress[tds[i]])]

\* leaderboard = [] and the loop over os.listdir("teams")
LoadEntries(W) ==
    LET tds == ListProgress(W)
    IN  [i \in 1..Len(tds) |-> LeaderboardEntry(W.progress[tds[i]])]

\* the mutant numbers ranks from 0
AssignRanksFromZero(sorted) ==
    [i \in 1..Len(sorted) |-> [sorted[i] EXCEPT !.rank = i - 1]]

\* for i, entry in enumerate(leaderboard, 1): entry["rank"] = i
AssignRanks(sorted) ==
    [i \in 1..Len(sorted) |-> [sorted[i] EXCEPT !.rank = i]]

update_leaderboard(W, dbFail) ==
    LET ranked == AssignRanks(list_sort(LoadEntries(W)))
    IN  update_mongodb_leaderboard([W EXCEPT !.leaderboard = ranked], ranked, dbFail)

(***************************************************************************)
(* update_progress                                                         *)
(***************************************************************************)
\* the bug numbers of a team's submission files, as os.listdir lists them.
\* The listing order is arbitrary; it decides only the order of the
\* "submissions" list (and which domain wins when a team's submissions name
\* several), so the model lists them by ascending number.
ListBugFiles(W, team_id) ==
    LET Has(b) == <<team_id, b>> \in DOMAIN W.bugFixes
    IN  SelectSeq(<<0, 1, 2>>, Has)

\* the mutant keeps the first timestamp it sees
FoldStepFirstTime(prog, sub) ==
    [prog EXCEPT
        !.submissions = Append(@, sub),
        !.domain = sub.domain,
        !.verified_submissions = IF sub.verified THEN @ + 1 ELSE @,
        !.total_points = IF sub.verified THEN @ + sub.points ELSE @,
        !.last_submission = IF @ = << >> THEN sub.submission_time ELSE @]

\* one pass of the loop body over a loaded submission
FoldStep(prog, sub) ==
    [prog EXCEPT
        !.submissions = Append(@, sub),
        !.domain = sub.domain,
        !.verified_submissions = IF sub.verified THEN @ + 1 ELSE @,
        !.total_points = IF sub.verified THEN @ + sub.points ELSE @,
        !.last_submission =
            IF @ = << >> \/ StrLess(@, sub.submission_time)
            THEN sub.submission_time ELSE @]

RECURSIVE FoldSubmissions(_, _)
FoldSubmissions(prog, subs) ==
    IF subs = << >> THEN prog
    ELSE FoldSubmissions(FoldStep(prog, Head(subs)), Tail(subs))

\* the progress record rebuilt from the team's submission files
\* (last_submission None is the empty string: both are falsy and sort as "")
BuildProgress(W, team_id) ==
    LET files == ListBugFiles(W, team_id)
        subs == [i \in 1..Len(files) |-> W.bugFixes[<<team_id, files[i]>>]]
    IN  FoldSubmissions(
            [team_id |-> team_id,
             total_submissions |-> Len(files),
             verified_submissions |-> 0,
             total_points |-> 0,
             last_submission |-> << >>,
             submissions |-> << >>,
             domain |-> <<"u", "n", "k", "n", "o", "w", "n">>],
            subs)

update_progress(W, team_id, dbFail) ==
    update_leaderboard(
        [W EXCEPT !.progress = Put(@, team_id, BuildProgress(W, team_id))],
        dbFail)

(***************************************************************************)
(* log_bug_fix                                                             *)
(***************************************************************************)
\* the reasons reopen_bug_issue is called with, in call order (the GitHub
\* issue is outside the tracker's state)
Reopens(env, result, verified, verifies) ==
    IF verifies
    THEN IF verified THEN << >> ELSE <<result.method>>
    ELSE (IF Truthy(env.code) THEN << >> ELSE <<"no code changes">>)
           \o (IF env.desc THEN << >> ELSE <<"no bug description">>)

\* the submission dict that log_bug_fix writes
BuildSubmission(team_id, bug_id, domain, commit, env) ==
    LET verifies == ShouldVerify(env.code, env.desc)
        result == IF verifies THEN env.res ELSE NoResult
        llm_verified == verifies /\ WebhookAccepts(result.text, bug_id)
    IN  [team_id |-> team_id,
         bug_id |-> bug_id,
         domain |-> domain,
         commit_hash |-> commit.id,
         commit_message |-> commit.message,
         submission_time |-> isoformat(env.now),
         status |-> "submitted",
         verified |-> llm_verified,
         points |-> IF llm_verified THEN get_bug_points(domain, bug_id) ELSE 0,
         code_changes |-> env.code,
         llm_verification |-> result.text,
         llm_verified |-> llm_verified,
         verification_method |-> result.method]

\* the mutant keeps the file of a pair that already has one
log_bug_fix_keep_first(W, team_id, bug_id, domain, commit, env) ==
    LET submission == BuildSubmission(team_id, bug_id, domain, commit, env)
        W1 == IF <<team_id, bug_id>> \in DOMAIN W.bugFixes THEN W
              ELSE [W EXCEPT !.bugFixes = Put(@, <<team_id, bug_id>>, submission)]
    IN  update_progress(W1, team_id, env.dbFail)

log_bug_fix(W, team_id, bug_id, domain, commit, env) ==
    LET submission == BuildSubmission(team_id, bug_id, domain, commit, env)
        W1 == [W EXCEPT !.bugFixes = Put(@, <<team_id, bug_id>>, submission)]
        W2 == IF submission.verified
              THEN update_manual_review_collection(W1, team_id, bug_id,
                                                   submission, env.dbFail)
              ELSE W1
    IN  update_progress(W2, team_id, env.dbFail)

\* what one log_bug_fix call did, for the record
CallRecord(op, team_id, bug_id, env, verifies, submission) ==
    [op |-> op,
     team_id |-> team_id,
     bug_id |-> bug_id,
     code |-> env.code,
     desc |-> env.desc,
     gateway_called |-> verifies,
     db_failed |-> env.dbFail,
     reopens |-> Reopens(env, [text |-> submission.llm_verification,
                               method |-> submission.verification_method],
                         submission.verified, verifies),
     written |-> submission]

(***************************************************************************)
(* manually_verify_bug, POST /verify/<team_id>/<bug_id>                    *)
(***************************************************************************)
Resp(code, kind, detail) ==
    [code |-> code, kind |-> kind, detail |-> detail,
     team_id |-> << >>, commits_processed |-> 0, verified |-> FALSE]

NoResponse == Resp(0, "none", "")

\* the mutant stamps the record as a new submission without a commit message
ReverifiedRestamped(submission, bug_id, result) ==
    [submission EXCEPT
        !.llm_verification = result.text,
        !.verification_method = result.method,
        !.commit_message = << >>,
        !.submission_time = isoformat(<<1, 0>>)]

\* the stored submission with its verdict fields rewritten
Reverified(submission, bug_id, result) ==
    LET llm_verified == ManualAccepts(result.text, bug_id)
    IN  [submission EXCEPT
            !.llm_verification = result.text,
            !.llm_verified = llm_verified,
            !.verified = llm_verified,
            !.verification_method = result.method,
            !.points = IF llm_verified THEN @ ELSE 0]

\* the mutant re-verifies without looking at the code changes and the
\* description
manually_verify_bug_unchecked(W, team_id, bug_id, env) ==
    IF <<team_id, bug_id>> \notin DOMAIN W.bugFixes
    THEN [world |-> W, response |-> Resp(404, "error", "Bug submission not found"),
          verifies |-> FALSE]
    ELSE LET submission == Reverified(W.bugFixes[<<team_id, bug_id>>], bug_id, env.res)
             W1 == [W EXCEPT !.bugFixes = Put(@, <<team_id, bug_id>>, submission)]
             W2 == IF submission.verified
                   THEN update_manual_review_collection(
                            W1, team_id, bug_id, submission, env.dbFail)
                   ELSE W1
         IN  [world |-> update_progress(W2, team_id, env.dbFail),
              response |->
                  [Resp(200, "reverified", "re-verified successfully")
                      EXCEPT !.verified = submission.verified],
              verifies |-> TRUE]

manually_verify_bug(W, team_id, bug_id, env) ==
    IF <<team_id, bug_id>> \notin DOMAIN W.bugFixes
    THEN [world |-> W, response |-> Resp(404, "error", "Bug submission not found"),
          verifies |-> FALSE]
    ELSE LET stored == W.bugFixes[<<team_id, bug_id>>]
         IN  IF Truthy(stored.code_changes) /\ env.desc
             THEN LET submission == Reverified(stored, bug_id, env.res)
                      W1 == [W EXCEPT !.bugFixes =
                                 Put(@, <<team_id, bug_id>>, submission)]
                      W2 == IF submission.verified
                            THEN update_manual_review_collection(
                                     W1, team_id, bug_id, submission, env.dbFail)
                            ELSE W1
                  IN  [world |-> update_progress(W2, team_id, env.dbFail),
                       response |->
                           [Resp(200, "reverified", "re-verified successfully")
                               EXCEPT !.verified = submission.verified],
                       verifies |-> TRUE]
             ELSE [world |-> W,
                   response |-> Resp(400, "error",
                                     "No code changes or bug description available"),
                   verifies |-> FALSE]

(***************************************************************************)
(* handle_github_webhook, POST /webhook/github                             *)
(***************************************************************************)
Msg_bug1 == <<"b", "u", "g", "#", "1">>

Msg_fix2 == <<"f", "i", "x", " ", "#", "2">>

Msg_bug0 == <<"f", "i", "x", " ", "b", "u", "g", "#", "0">>

Msg_docs == <<"d", "o", "c", "s">>

CommitUniverse ==
    {[id |-> "c1", message |-> Msg_bug1], [id |-> "c2", message |-> Msg_fix2],
     [id |-> "c0", message |-> Msg_bug0], [id |-> "cx", message |-> Msg_docs]}

\* commits carried by one push event
MaxCommits == 2

CommitLists == UNION {[1..n -> CommitUniverse] : n \in 0..MaxCommits}

\* a decoded payload: the repository name (when there is one) and the commits
Payload(has_repo, name, commits) ==
    [empty |-> FALSE, has_repo |-> has_repo, name |-> name, commits |-> commits]

EmptyPayload == [empty |-> TRUE, has_repo |-> FALSE, name |-> << >>, commits |-> << >>]

\* every commit list for one team repository, short ones for every name
Payloads ==
    {Payload(TRUE, RepoTeam9, cs) : cs \in CommitLists}
      \cup {Payload(TRUE, r, cs) :
                r \in RepoNames,
                cs \in {<< >>, << [id |-> "c1", message |-> Msg_bug1] >>}}
      \cup {Payload(FALSE, << >>, << >>), EmptyPayload}

\* a request body or form field: JSON text of a payload, text that is not
\* JSON, or nothing
Json(pl) == [kind |-> "json", payload |-> pl]

Malformed == [kind |-> "malformed", payload |-> EmptyPayload]

Absent == [kind |-> "absent", payload |-> EmptyPayload]

Request(event, is_json, data, form) ==
    [event |-> event, is_json |-> is_json, data |-> data, form |-> form]

SamplePayload == Payload(TRUE, RepoTeam7, << >>)

Requests ==
    {Request("push", TRUE, Json(pl), Absent) : pl \in Payloads}
      \cup {Request("push", FALSE, Malformed, Json(pl)) :
                pl \in {SamplePayload, Payload(TRUE, RepoRandom, << >>)}}
      \cup {Request("push", j, Malformed, f) :
                j \in BOOLEAN, f \in {Absent, Malformed}}
      \cup {Request("push", FALSE, Json(SamplePayload), Absent)}
      \cup {Request(e, TRUE, d, Absent) :
                e \in {"pull_request", "ping"},
                d \in {Malformed, Json(Payload(TRUE, RepoTeam7,
                           << [id |-> "c1", message |-> Msg_bug1] >>))}}

\* the payload decoding attempts; ok is FALSE when an exception escapes them
ParsePayload(req) ==
    IF req.is_json
    THEN [ok |-> req.data.kind = "json", payload |-> req.data.payload]
    ELSE IF req.data.kind = "json"
         THEN [ok |-> TRUE, payload |-> req.data.payload]
    ELSE IF req.form.kind = "malformed"
         THEN [ok |-> FALSE, payload |-> EmptyPayload]
    ELSE IF req.form.kind = "json" /\ ~req.form.payload.empty
         THEN [ok |-> TRUE, payload |-> req.form.payload]
    ELSE [ok |-> FALSE, payload |-> EmptyPayload]

TeamPrefix == <<"t", "e", "a", "m", "-">>

Idle == [active |-> FALSE, team_id |-> << >>, domain |-> << >>,
         commits |-> << >>, processed |-> 0]

\* the handler up to the commit loop: the response it returns at once, or
\* the loop state it enters
WebhookFiltersParseFirst(req) ==
    LET parsed == ParsePayload(req)
        pl == parsed.payload
        parts == Split(pl.name, "-")
    IN  IF ~parsed.ok
        THEN [response |-> Resp(500, "error", "exception"), hook |-> Idle]
        ELSE IF req.event /= "push"
        THEN [response |-> Resp(200, "ignored", "not a push event"), hook |-> Idle]
        ELSE IF pl.empty
        THEN [response |-> Resp(400, "error", "Empty payload"), hook |-> Idle]
        ELSE IF ~pl.has_repo \/ pl.name = << >>
        THEN [response |-> Resp(400, "error", "No repository name"), hook |-> Idle]
        ELSE IF ~StartsWith(pl.name, TeamPrefix)
        THEN [response |-> Resp(200, "ignored", "not a team repo"), hook |-> Idle]
        ELSE IF Len(parts) < 3
        THEN [response |-> Resp(400, "error", "Invalid team repo name format"),
              hook |-> Idle]
        ELSE [response |-> NoResponse,
              hook |-> [active |-> TRUE, team_id |-> parts[2], domain |-> parts[3],
                        commits |-> pl.commits, processed |-> 0]]

WebhookFilters(req) ==
    IF req.event /= "push"
    THEN [response |-> Resp(200, "ignored", "not a push event"), hook |-> Idle]
    ELSE LET parsed == ParsePayload(req)
             pl == parsed.payload
             parts == Split(pl.name, "-")
         IN  IF ~parsed.ok
             THEN [response |-> Resp(500, "error", "exception"), hook |-> Idle]
             ELSE IF pl.empty
             THEN [response |-> Resp(400, "error", "Empty payload"), hook |-> Idle]
             ELSE IF ~pl.has_repo \/ pl.name = << >>
             THEN [response |-> Resp(400, "error", "No repository name"),
                   hook |-> Idle]
             ELSE IF ~StartsWith(pl.name, TeamPrefix)
             THEN [response |-> Resp(200, "ignored", "not a team repo"),
                   hook |-> Idle]
             ELSE IF Len(parts) < 3
             THEN [response |-> Resp(400, "error", "Invalid team repo name format"),
                   hook |-> Idle]
             ELSE [response |-> NoResponse,
                   hook |-> [active |-> TRUE, team_id |-> parts[2],
                             domain |-> parts[3], commits |-> pl.commits,
                             processed |-> 0]]

\* the mutant tests "is not None"
BugIdAcceptedNotNone(bug_id) == bug_id /= NoBug

\* if bug_id: None and 0 are both falsy
BugIdAccepted(bug_id) == bug_id /= NoBug /\ bug_id /= 0

(***************************************************************************)
(* The tracker as a state machine.  One request is handled at a time; the  *)
(* webhook's commit loop takes one step per commit.                        *)
(*                                                                         *)
(* phase names the inputs a behaviour draws from:                          *)
(*   "tracker"  few requests, every diff/description/verdict/clock input   *)
(*   "db"       the same requests, every database condition, few verdicts  *)
(*   "webhook"  every request shape, few verdicts                          *)
(***************************************************************************)
NoRequest == Request("none", FALSE, Absent, Absent)

NoSubmission ==
    [team_id |-> << >>, bug_id |-> NoBug, domain |-> << >>, commit_hash |-> "",
     commit_message |-> << >>, submission_time |-> << >>, status |-> "",
     verified |-> FALSE, points |-> 0, code_changes |-> CodeNone,
     llm_verification |-> << >>, llm_verified |-> FALSE,
     verification_method |-> ""]

NoCall ==
    [op |-> "none", team_id |-> << >>, bug_id |-> NoBug, code |-> CodeNone,
     desc |-> FALSE, gateway_called |-> FALSE, db_failed |-> FALSE,
     reopens |-> << >>,
     written |-> NoSubmission]

Commit1 == [id |-> "c1", message |-> Msg_bug1]

Commit2 == [id |-> "c2", message |-> Msg_fix2]

CommitX == [id |-> "cx", message |-> Msg_docs]

\* pushes of one commit to a team repository
TrackerRequests ==
    {Request("push", TRUE, Json(Payload(TRUE, r, <<c>>)), Absent) :
        r \in {RepoTeam7, RepoTeam9}, c \in {Commit1, Commit2, CommitX}}

\* verify_with_llm results: the conclusive deterministic pass, a model answer
\* in the compact spelling, a model rejection, a failed call
FewOutcomes(b) ==
    {verify_with_llm_result(verify_bug_fix(BugKey(b), d, l)) :
        d \in {"True", "None"},
        l \in {[kind |-> "text", content |-> c, status |-> 200] :
                  c \in {CompactPair(BugKey(b), StrTrue),
                         json_dumps_pair(BugKey(b), StrFalse)}}
                \cup {[kind |-> "http_error", content |-> << >>, status |-> 429]}}

InRequests == IF phase = "webhook" THEN Requests ELSE TrackerRequests

InCodes ==
    CASE phase = "tracker" -> CodeValues
      [] phase = "db" -> {CodeNone, CodeSome}
      [] OTHER -> {CodeSome}

InDescs == IF phase = "tracker" THEN BOOLEAN ELSE {TRUE}

InTimes == IF phase = "tracker" THEN {<<0, 0>>, <<0, 1>>} ELSE {<<1, 0>>}

InOutcomes(b) ==
    IF phase = "tracker" THEN FewOutcomes(b)
    ELSE {verify_with_llm_result(
              verify_bug_fix(BugKey(b), "True",
                             [kind |-> "exception", content |-> << >>, status |-> 0])),
          [text |-> EmptyObject, method |-> "error"]}

InFails == IF phase = "db" /\ dbUp THEN BOOLEAN ELSE {FALSE}

\* a row left in the leaderboard collection by an earlier deployment
StaleRow ==
    [team_id |-> T9, bugs_solved |-> 1, total_points |-> 10,
     last_submission |-> isoformat(<<0, 0>>), domain |-> Cv, rank |-> 1]

\* setup_tracking_repo on an empty working directory
InitFiles ==
    /\ bugFixes = EmptyMap
    /\ progress = EmptyMap
    /\ leaderboard = << >>

InitRest ==
    /\ dbManualReview = EmptyMap
    /\ hook = Idle
    /\ response = NoResponse
    /\ lastReq = NoRequest
    /\ lastCall = NoCall
    /\ calls = << >>
    /\ nreq = 0

NoGwRequest ==
    [bug_to_check |-> << >>, det |-> "None",
     llm |-> [kind |-> "none", content |-> << >>, status |-> 0]]

NoGwResponse ==
    [status |-> 0, verification_result |-> << >>, method |-> "",
     llm_contacted |-> FALSE]

\* no log_bug_fix call is in flight
NoThreads == << >>

\* the deterministic verifier has not been called
NoDet == [called |-> FALSE]

\* the state of extract_bug_id and of the gateway when only the tracker runs
InitPure ==
    /\ msg = << >>
    /\ bugId = NoBug
    /\ gwReq = NoGwRequest
    /\ gwResp = NoGwResponse
    /\ threads = NoThreads
    /\ det = NoDet

\* setup_mongodb connected to an empty database
InitTracker ==
    /\ phase = "tracker"
    /\ InitFiles
    /\ dbUp = TRUE
    /\ dbLeaderboard = EmptyMap
    /\ InitRest
    /\ InitPure
    /\ teamOrder \in Perms(Teams)

\* setup_mongodb against a database that is down, empty, or holds a row of an
\* earlier deployment
InitDb ==
    /\ phase = "db"
    /\ InitFiles
    /\ dbUp \in BOOLEAN
    /\ dbLeaderboard \in (IF dbUp THEN {EmptyMap, Put(EmptyMap, T9, StaleRow)}
                          ELSE {EmptyMap})
    /\ InitRest
    /\ InitPure
    /\ teamOrder \in Perms(Teams)

\* setup_mongodb connected to an empty database; every request shape arrives
InitWebhook ==
    /\ phase = "webhook"
    /\ InitFiles
    /\ dbUp = TRUE
    /\ dbLeaderboard = EmptyMap
    /\ InitRest
    /\ InitPure
    /\ teamOrder \in Perms(Teams)

SetWorld(W) ==
    /\ bugFixes' = W.bugFixes
    /\ progress' = W.progress
    /\ leaderboard' = W.leaderboard
    /\ dbLeaderboard' = W.dbLeaderboard
    /\ dbManualReview' = W.dbManualReview

TrackerPhase == phase \in {"tracker", "db", "webhook"}

\* requests of one behaviour: one more where the inputs are few
Budget == IF phase = "db" THEN MaxRequests + 1 ELSE MaxRequests

\* a request arrives at /webhook/github: the checks before the commit loop
ReceiveWebhook ==
    /\ TrackerPhase /\ ~hook.active /\ nreq < Budget
    /\ \E req \in InRequests :
          /\ lastReq' = req
          /\ response' = WebhookFilters(req).response
          /\ hook' = WebhookFilters(req).hook
    /\ nreq' = nreq + 1
    /\ lastCall' = NoCall
    /\ calls' = << >>
    /\ UNCHANGED << worldVars, dbUp, teamOrder, msg, bugId, phase, gwReq, gwResp, threads, det >>

\* one pass of the loop for a commit that carries a bug id: log_bug_fix
LogCommit ==
    /\ TrackerPhase /\ hook.active /\ hook.commits /= << >>
    /\ LET commit == Head(hook.commits)
           bug_id == extract_bug_id(commit.message)
       IN  /\ BugIdAccepted(bug_id)
           /\ \E env \in EnvSet(bug_id, InCodes, InDescs, InOutcomes(bug_id),
                                InTimes, InFails) :
                 /\ SetWorld(log_bug_fix(World, hook.team_id, bug_id,
                                         hook.domain, commit, env))
                 /\ lastCall' =
                        CallRecord("log_bug_fix", hook.team_id, bug_id, env,
                                   ShouldVerify(env.code, env.desc),
                                   BuildSubmission(hook.team_id, bug_id,
                                                   hook.domain, commit, env))
           /\ calls' = Append(calls, [id |-> commit.id, bug_id |-> bug_id])
    /\ hook' = [hook EXCEPT !.commits = Tail(@), !.processed = @ + 1]
    /\ UNCHANGED << dbUp, teamOrder, response, lastReq, nreq,
                    msg, bugId, phase, gwReq, gwResp, threads, det >>

\* one pass of the loop for a commit without one
SkipCommit ==
    /\ TrackerPhase /\ hook.active /\ hook.commits /= << >>
    /\ ~BugIdAccepted(extract_bug_id(Head(hook.commits).message))
    /\ hook' = [hook EXCEPT !.commits = Tail(@)]
    /\ UNCHANGED << worldVars, dbUp, teamOrder, response, lastReq,
                    lastCall, calls, nreq, msg, bugId, phase, gwReq, gwResp, threads, det >>

\* the loop is over: the "processed" response
FinishWebhook ==
    /\ TrackerPhase /\ hook.active /\ hook.commits = << >>
    /\ response' = [Resp(200, "processed", "") EXCEPT
                       !.team_id = hook.team_id,
                       !.commits_processed = hook.processed]
    /\ hook' = Idle
    /\ lastCall' = NoCall
    /\ UNCHANGED << worldVars, dbUp, teamOrder, lastReq,
                    calls, nreq, msg, bugId, phase, gwReq, gwResp, threads, det >>

\* a request arrives at /verify/<team_id>/<bug_id>
ManualVerify ==
    /\ TrackerPhase /\ ~hook.active /\ nreq < Budget
    /\ \E team_id \in Teams, bug_id \in Bugs :
          \E env \in (IF <<team_id, bug_id>> \in DOMAIN bugFixes
                      THEN EnvSet(bug_id,
                                  {bugFixes[<<team_id, bug_id>>].code_changes},
                                  InDescs, InOutcomes(bug_id), {<<0, 0>>}, InFails)
                      ELSE {[code |-> CodeNone, desc |-> FALSE, res |-> NoResult,
                             now |-> <<0, 0>>, dbFail |-> FALSE]}) :
             LET out == manually_verify_bug(World, team_id, bug_id, env)
             IN  /\ SetWorld(out.world)
                 /\ response' = out.response
                 /\ lastCall' =
                        [NoCall EXCEPT
                            !.op = "manually_verify_bug",
                            !.team_id = team_id,
                            !.bug_id = bug_id,
                            !.desc = env.desc,
                            !.gateway_called = out.verifies,
                            !.db_failed = env.dbFail,
                            !.written =
                                IF out.verifies
                                THEN out.world.bugFixes[<<team_id, bug_id>>]
                                ELSE NoSubmission]
    /\ lastReq' = Request("manual_verify", FALSE, Absent, Absent)
    /\ calls' = << >>
    /\ nreq' = nreq + 1
    /\ UNCHANGED << dbUp, teamOrder, hook, msg, bugId, phase, gwReq, gwResp, threads, det >>

\* tracker.update_leaderboard() run again on its own
RecomputeLeaderboard ==
    /\ TrackerPhase /\ ~hook.active /\ nreq < Budget
    /\ \E dbFail \in InFails : SetWorld(update_leaderboard(World, dbFail))
    /\ lastReq' = Request("update_leaderboard", FALSE, Absent, Absent)
    /\ lastCall' = NoCall
    /\ calls' = << >>
    /\ nreq' = nreq + 1
    /\ UNCHANGED << dbUp, teamOrder, hook, response,
                    msg, bugId, phase, gwReq, gwResp, threads, det >>

Next ==
    \/ ReceiveWebhook
    \/ LogCommit
    \/ SkipCommit
    \/ FinishWebhook
    \/ ManualVerify
    \/ RecomputeLeaderboard

Spec == InitTracker /\ [][Next]_vars

SpecDb == InitDb /\ [][Next]_vars

SpecWebhook == InitWebhook /\ [][Next]_vars

(***************************************************************************)
(* extract_bug_id on its own: one call on one commit message.              *)
(***************************************************************************)
Lexicon ==
    { <<"b", "u", "g">>, <<"F", "i", "x">>, <<"#">>, <<" ">>, <<"0">>, <<"7">>,
      <<"x">>, Msg_bug1, <<"f", "i", "x", "#", "2">> }

RECURSIVE Flatten(_)
Flatten(ws) == IF ws = << >> THEN << >> ELSE Head(ws) \o Flatten(Tail(ws))

\* commit messages: up to MaxWords fragments of the lexicon, concatenated
Messages == {Flatten(ws) : ws \in UNION {[1..n -> Lexicon] : n \in 0..MaxWords}}

InitExtract ==
    /\ phase = "extract"
    /\ InitFiles
    /\ dbUp = FALSE
    /\ dbLeaderboard = EmptyMap
    /\ InitRest
    /\ teamOrder = <<T7, T9>>
    /\ msg \in Messages
    /\ bugId = NoBug
    /\ gwReq = NoGwRequest
    /\ gwResp = NoGwResponse
    /\ threads = NoThreads
    /\ det = NoDet

ExtractBugId ==
    /\ phase = "extract"
    /\ bugId' = extract_bug_id(msg)
    /\ phase' = "extracted"
    /\ UNCHANGED << worldVars, dbUp, teamOrder, hook, response, lastReq,
                    lastCall, calls, nreq, msg, gwReq, gwResp, threads, det >>

NextExtract == ExtractBugId

SpecExtract == InitExtract /\ [][NextExtract]_vars

(***************************************************************************)
(* The gateway on its own: one POST /verify.                               *)
(***************************************************************************)
GwRequests ==
    UNION {{[bug_to_check |-> BugKey(b), det |-> d, llm |-> l] :
               d \in DetResults, l \in LlmOutcomes(BugKey(b))} :
           b \in 0..MaxBugId}

InitGateway ==
    /\ phase = "gateway"
    /\ InitFiles
    /\ dbUp = FALSE
    /\ dbLeaderboard = EmptyMap
    /\ InitRest
    /\ teamOrder = <<T7, T9>>
    /\ msg = << >>
    /\ bugId = NoBug
    /\ gwReq \in GwRequests
    /\ gwResp = NoGwResponse
    /\ threads = NoThreads
    /\ det = NoDet

GatewayVerify ==
    /\ phase = "gateway"
    /\ gwResp' = verify_bug_fix(gwReq.bug_to_check, gwReq.det, gwReq.llm)
    /\ phase' = "answered"
    /\ UNCHANGED << worldVars, dbUp, teamOrder, hook, response, lastReq,
                    lastCall, calls, nreq, msg, bugId, gwReq, threads, det >>

NextGateway == GatewayVerify

SpecGateway == InitGateway /\ [][NextGateway]_vars

(***************************************************************************)
(* The two leaderboard syncs on their own: one call on a collection, with  *)
(* the list in leaderboard and the collection in dbLeaderboard.            *)
(***************************************************************************)
SyncEntry(team_id, team, id, points) ==
    [team_id |-> team_id, team |-> team, id |-> id, total_points |-> points]

\* entries keyed by team_id, by team, by id, by several keys, by none
SyncEntries ==
    { SyncEntry(T7, << >>, << >>, 10), SyncEntry(T9, << >>, << >>, 0),
      SyncEntry(<< >>, T9, << >>, 10), SyncEntry(<< >>, << >>, T7, 0),
      SyncEntry(T7, T9, << >>, 20), SyncEntry(<< >>, << >>, << >>, 10) }

SyncLists == UNION {[1..n -> SyncEntries] : n \in 0..MaxEntries}

OldRow(t) == SyncEntry(t, << >>, << >>, 5)

SyncCollections ==
    { EmptyMap, Put(EmptyMap, T7, OldRow(T7)), Put(EmptyMap, T9, OldRow(T9)),
      Put(Put(EmptyMap, T7, OldRow(T7)), T9, OldRow(T9)) }

InitSync ==
    /\ phase = "sync"
    /\ bugFixes = EmptyMap
    /\ progress = EmptyMap
    /\ leaderboard \in SyncLists
    /\ dbUp \in BOOLEAN
    /\ dbLeaderboard \in SyncCollections
    /\ InitRest
    /\ InitPure
    /\ teamOrder = <<T7, T9>>

\* db.upsert_leaderboard(leaderboard)
SyncDb ==
    /\ phase = "sync"
    /\ dbLeaderboard' = upsert_leaderboard(dbLeaderboard, leaderboard)
    /\ phase' = "synced_db"
    /\ UNCHANGED << bugFixes, progress, leaderboard, dbManualReview, dbUp,
                    teamOrder, hook, response, lastReq, lastCall, calls, nreq,
                    msg, bugId, gwReq, gwResp, threads, det >>

\* tracker.update_mongodb_leaderboard(leaderboard)
SyncTracker ==
    /\ phase = "sync"
    /\ \E dbFail \in BOOLEAN :
          dbLeaderboard' =
              update_mongodb_leaderboard(World, leaderboard, dbFail).dbLeaderboard
    /\ phase' = "synced_tracker"
    /\ UNCHANGED << bugFixes, progress, leaderboard, dbManualReview, dbUp,
                    teamOrder, hook, response, lastReq, lastCall, calls, nreq,
                    msg, bugId, gwReq, gwResp, threads, det >>

NextSync == SyncDb \/ SyncTracker

SpecSync == InitSync /\ [][NextSync]_vars

(***************************************************************************)
(* Two log_bug_fix calls in flight at once (the server handles requests in *)
(* threads and the tracker takes no lock).  A call is past verification    *)
(* and holds its submission; from there it takes five steps, each one pass *)
(* of file reads or one file write with the database call that follows:    *)
(*   "write"  json.dump of the submission, update_manual_review_collection *)
(*   "list"   update_progress: os.listdir and the loads of the bug files   *)
(*   "save"   update_progress: json.dump of progress.json                  *)
(*   "load"   update_leaderboard: the loads of every progress.json         *)
(*   "board"  update_leaderboard: json.dump of leaderboard.json, database  *)
(* A json.dump is taken as one step; a reader that meets a half-written    *)
(* file only adds outcomes to the ones below.                              *)
(***************************************************************************)
Commit3 == [id |-> "c3", message |-> Msg_bug1]

\* the first call is for team 7's bug 1; the second is for the same pair or
\* for team 9's bug 1, and reads the clock later
ThreadCalls ==
    {<<[team_id |-> T7, bug_id |-> 1, domain |-> Nlp, commit |-> Commit1, env |-> e1],
       [team_id |-> c[1], bug_id |-> 1, domain |-> c[2], commit |-> Commit3, env |-> e2]>> :
        e1 \in EnvSet(1, {CodeSome}, {TRUE}, InOutcomes(1), {<<0, 0>>}, {FALSE}),
        e2 \in EnvSet(1, {CodeSome}, {TRUE}, InOutcomes(1), {<<0, 1>>}, {FALSE}),
        c \in {<<T7, Nlp>>, <<T9, Cv>>}}

Thread(call) ==
    [pc |-> "write", call |-> call,
     progress |-> EmptyMap, leaderboard |-> << >>]

InitRace ==
    /\ phase = "race"
    /\ InitFiles
    /\ dbUp = TRUE
    /\ dbLeaderboard = EmptyMap
    /\ InitRest
    /\ msg = << >>
    /\ bugId = NoBug
    /\ gwReq = NoGwRequest
    /\ gwResp = NoGwResponse
    /\ det = NoDet
    /\ teamOrder \in Perms(Teams)
    /\ \E cs \in ThreadCalls : threads = [t \in 1..2 |-> Thread(cs[t])]

\* log_bug_fix, lines 335-357: the submission file and the review row
log_bug_fix_write(t) ==
    /\ threads[t].pc = "write"
    /\ LET c == threads[t].call
           submission == BuildSubmission(c.team_id, c.bug_id, c.domain, c.commit, c.env)
           W1 == [World EXCEPT !.bugFixes = Put(@, <<c.team_id, c.bug_id>>, submission)]
       IN  /\ SetWorld(IF submission.verified
                       THEN update_manual_review_collection(
                                W1, c.team_id, c.bug_id, submission, c.env.dbFail)
                       ELSE W1)
           /\ lastCall' = CallRecord("log_bug_fix", c.team_id, c.bug_id, c.env,
                                     ShouldVerify(c.env.code, c.env.desc), submission)
    /\ threads' = [threads EXCEPT ![t].pc = "list"]
    /\ UNCHANGED << dbUp, teamOrder, hook, response, lastReq, calls, nreq,
                    msg, bugId, phase, gwReq, gwResp, det >>

\* update_progress, lines 367-392: the team's bug files folded into a dict
update_progress_read(t) ==
    /\ threads[t].pc = "list"
    /\ threads' = [threads EXCEPT
                      ![t].pc = "save",
                      ![t].progress = BuildProgress(World, threads[t].call.team_id)]
    /\ UNCHANGED << worldVars, dbUp, teamOrder, hook, response, lastReq, lastCall,
                    calls, nreq, msg, bugId, phase, gwReq, gwResp, det >>

\* update_progress, lines 395-396: the dict written to progress.json
update_progress_write(t) ==
    /\ threads[t].pc = "save"
    /\ progress' = Put(progress, threads[t].call.team_id, threads[t].progress)
    /\ threads' = [threads EXCEPT ![t].pc = "load"]
    /\ UNCHANGED << bugFixes, leaderboard, dbLeaderboard, dbManualReview, dbUp,
                    teamOrder, hook, response, lastReq, lastCall, calls, nreq,
                    msg, bugId, phase, gwReq, gwResp, det >>

\* update_leaderboard, lines 406-426: every progress.json loaded, sorted, ranked
update_leaderboard_read(t) ==
    /\ threads[t].pc = "load"
    /\ threads' = [threads EXCEPT
                      ![t].pc = "board",
                      ![t].leaderboard = AssignRanks(list_sort(LoadEntries(World)))]
    /\ UNCHANGED << worldVars, dbUp, teamOrder, hook, response, lastReq, lastCall,
                    calls, nreq, msg, bugId, phase, gwReq, gwResp, det >>

\* update_leaderboard, lines 429-433: leaderboard.json and the collection
update_leaderboard_write(t) ==
    /\ threads[t].pc = "board"
    /\ SetWorld(update_mongodb_leaderboard(
                    [World EXCEPT !.leaderboard = threads[t].leaderboard],
                    threads[t].leaderboard, threads[t].call.env.dbFail))
    /\ threads' = [threads EXCEPT ![t].pc = "done"]
    /\ UNCHANGED << dbUp, teamOrder, hook, response, lastReq, lastCall, calls,
                    nreq, msg, bugId, phase, gwReq, gwResp, det >>

NextRace ==
    \E t \in 1..2 :
        \/ log_bug_fix_write(t)
        \/ update_progress_read(t)
        \/ update_progress_write(t)
        \/ update_leaderboard_read(t)
        \/ update_leaderboard_write(t)

SpecRace == InitRace /\ [][NextRace]_vars

(***************************************************************************)
(* DeterministicVerifier (deterministic_verifier.py).  Texts are sequences *)
(* of characters; every regular expression is followed position by         *)
(* position, with the flags the code passes.                               *)
(***************************************************************************)
\* \s, on the white space the model's texts hold
IsSpace(c) == c \in {" ", "\n", "\t"}

\* str.lower()
LowerStr(s) == [i \in 1..Len(s) |-> Lower(s[i])]

\* the literal lit stands at position i of s, letters in either case
\* (re.IGNORECASE)
LitAt(s, i, lit) ==
    /\ i >= 1
    /\ i + Len(lit) - 1 <= Len(s)
    /\ \A k \in 1..Len(lit) : Lower(s[i + k - 1]) = Lower(lit[k])

RECURSIVE SkipSpace(_, _)
\* a greedy \s* from position i: the first position it does not consume
SkipSpace(s, i) ==
    IF i <= Len(s) /\ IsSpace(s[i]) THEN SkipSpace(s, i + 1) ELSE i

\* str.strip()
Strip(s) ==
    LET keep == {i \in 1..Len(s) : ~IsSpace(s[i])}
        lo == CHOOSE i \in keep : \A j \in keep : i <= j
        hi == CHOOSE i \in keep : \A j \in keep : j <= i
    IN  IF keep = {} THEN << >> ELSE SubSeq(s, lo, hi)

\* the least position from which literal lit stands in s at or after i,
\* 0 when there is none
Find(s, lit, i) ==
    LET P == {k \in i..Len(s) : LitAt(s, k, lit)}
    IN  IF P = {} THEN 0 ELSE CHOOSE k \in P : \A j \in P : k <= j

\* rf'#{1,3}...': inside the f-string the braces are a replacement field, so
\* the pattern text is '#(1, 3)\s*<id>[:\s]+(.*?)(?=#(1, 3)|\Z)' and its
\* group 1 is the literal text "1, 3"
HeadingGroup == <<"1", ",", " ", "3">>

\* the first pattern finds START\s+"id": ... END\s+"id" and yields what
\* stands between, stripped; the second finds "#1, 3", white space, the id
\* and a colon or white space, and yields its group 1
_extract_bug_spec(bugs_doc, bug_id) ==
    LET n == Len(bugs_doc)
        Quote == <<Q>> \o bug_id \o <<Q>>
        \* the position after START\s+"id": when that stands at i, else 0
        Header(i) ==
            LET j == SkipSpace(bugs_doc, i + 5)
            IN  IF /\ LitAt(bugs_doc, i, <<"S", "T", "A", "R", "T">>)
                   /\ j > i + 5
                   /\ LitAt(bugs_doc, j, Quote \o <<":">>)
                THEN j + Len(Quote) + 1 ELSE 0
        EndAt(e) ==
            /\ LitAt(bugs_doc, e, <<"E", "N", "D">>)
            /\ SkipSpace(bugs_doc, e + 3) > e + 3
            /\ LitAt(bugs_doc, SkipSpace(bugs_doc, e + 3), Quote)
        Ends(h) == {e \in h..n : EndAt(e)}
        Starts == {i \in 1..n : Header(i) > 0 /\ Ends(Header(i)) /= {}}
        i0 == CHOOSE i \in Starts : \A k \in Starts : i <= k
        e0 == CHOOSE e \in Ends(Header(i0)) : \A k \in Ends(Header(i0)) : e <= k
        HeadingAt(i) ==
            LET j == SkipSpace(bugs_doc, i + Len(HeadingGroup) + 1)
                k == j + Len(bug_id)
            IN  /\ bugs_doc[i] = "#"
                /\ LitAt(bugs_doc, i + 1, HeadingGroup)
                /\ LitAt(bugs_doc, j, bug_id)
                /\ k <= n
                /\ (bugs_doc[k] = ":" \/ IsSpace(bugs_doc[k]))
    IN  IF Starts /= {} THEN Strip(SubSeq(bugs_doc, Header(i0), e0 - 1))
        ELSE IF \E i \in 1..n : HeadingAt(i) THEN Strip(HeadingGroup)
        ELSE << >>

\* solution_patterns, in order: the keyword, whether an optional colon
\* follows it, and what is captured after \s*
\*   "fence"  a fenced block: three backticks, an optional "python", \s*,
\*            the lazy group (.*?), \s*, three backticks
\*   "line"   the rest of a line: ([^\n]+)
\*   "tick"   inline code: a backtick, a group of one or more characters
\*            other than a backtick, a backtick
solution_patterns ==
    << [kw |-> <<"S", "O", "L", "U", "T", "I", "O", "N", ":">>, colon |-> FALSE, kind |-> "fence"],
       [kw |-> <<"#", "#", " ", "S", "o", "l", "u", "t", "i", "o", "n">>, colon |-> FALSE, kind |-> "fence"],
       [kw |-> <<"S", "o", "l", "u", "t", "i", "o", "n">>, colon |-> TRUE, kind |-> "fence"],
       [kw |-> <<"F", "i", "x">>, colon |-> TRUE, kind |-> "fence"],
       [kw |-> <<"S", "O", "L", "U", "T", "I", "O", "N", ":">>, colon |-> FALSE, kind |-> "line"],
       [kw |-> <<"S", "o", "l", "u", "t", "i", "o", "n">>, colon |-> TRUE, kind |-> "tick"] >>

\* the character U+0060, which a string literal of the module cannot hold
Backtick == "backtick"

Fence == <<Backtick, Backtick, Backtick>>

\* re.search(pattern, bug_spec, DOTALL | IGNORECASE) for one pattern: the
\* group of the leftmost match ([ok |-> FALSE] without a match)
SolutionSearch(s, p) ==
    LET n == Len(s)
        NoMatch == [ok |-> FALSE, group |-> << >>]
        \* the position after the keyword and the colon that ":?" takes
        After(i) ==
            LET a == i + Len(p.kw)
            IN  IF p.colon /\ a <= n /\ s[a] = ":" THEN a + 1 ELSE a
        FenceAt(a) ==
            LET j == SkipSpace(s, a)
                k == IF LitAt(s, j + 3, <<"p", "y", "t", "h", "o", "n">>) THEN j + 9 ELSE j + 3
                c == Find(s, Fence, k)
            IN  IF LitAt(s, j, Fence) /\ c > 0
                THEN [ok |-> TRUE, group |-> SubSeq(s, k, c - 1)]
                ELSE NoMatch
        \* \s* gives characters back when it reached the end of the text
        LineAt(a) ==
            LET j == SkipSpace(s, a)
                nl == Find(s, <<"\n">>, j)
                back == {k \in a..n : s[k] /= "\n"}
                b == CHOOSE k \in back : \A m \in back : m <= k
            IN  IF j <= n
                THEN [ok |-> TRUE,
                      group |-> SubSeq(s, j, IF nl = 0 THEN n ELSE nl - 1)]
                ELSE IF back /= {} THEN [ok |-> TRUE, group |-> <<s[b]>>]
                ELSE NoMatch
        TickAt(a) ==
            LET j == SkipSpace(s, a)
                c == Find(s, <<Backtick>>, j + 1)
            IN  IF j <= n /\ s[j] = Backtick /\ c > j + 1
                THEN [ok |-> TRUE, group |-> SubSeq(s, j + 1, c - 1)]
                ELSE NoMatch
        At(i) ==
            IF ~LitAt(s, i, p.kw) THEN NoMatch
            ELSE CASE p.kind = "fence" -> FenceAt(After(i))
                   [] p.kind = "line" -> LineAt(After(i))
                   [] OTHER -> TickAt(After(i))
        I == {i \in 1..n : At(i).ok}
    IN  IF I = {} THEN NoMatch ELSE At(CHOOSE i \in I : \A k \in I : i <= k)

\* the first pattern whose match has a non-blank group decides
_extract_solution(bug_spec) ==
    LET Found(k) == Strip(SolutionSearch(bug_spec, solution_patterns[k]).group)
        K == {k \in DOMAIN solution_patterns : Found(k) /= << >>}
    IN  IF K = {} THEN << >> ELSE Found(CHOOSE k \in K : \A m \in K : k <= m)

(***************************************************************************)
(* The diff is a JSON value: a string, a list, a dict (its keys in         *)
(* insertion order) or anything else.                                      *)
(***************************************************************************)
JStr(s) == [t |-> "str", v |-> s]

JList(items) == [t |-> "list", v |-> items]

JDict(pairs) == [t |-> "dict", v |-> pairs]

\* the keys _extract_code_from_diff looks for, in its order
DiffKeys == <<"added", "new_code", "content", "changes", "diff", "code">>

\* "if it looks like code": any of the indicators occurs in the string
CodeIndicators ==
    { <<"d", "e", "f", " ">>, <<"c", "l", "a", "s", "s", " ">>, <<"i", "m", "p", "o", "r", "t", " ">>, <<"=">>, <<"i", "f", " ">>, <<"r", "e", "t", "u", "r", "n">> }

RECURSIVE extract_recursive(_)
\* the strings extract_recursive appends to code_parts, in order
extract_recursive(obj) ==
    CASE obj.t = "dict" ->
             LET Under(key) ==
                     {m \in DOMAIN obj.v : obj.v[m].k = key /\ obj.v[m].v.t = "str"}
             IN  Flatten([i \in DOMAIN DiffKeys |->
                              IF Under(DiffKeys[i]) = {} THEN << >>
                              ELSE <<obj.v[CHOOSE m \in Under(DiffKeys[i]) : TRUE].v.v>>])
                   \o Flatten([m \in DOMAIN obj.v |-> extract_recursive(obj.v[m].v)])
      [] obj.t = "list" ->
             Flatten([m \in DOMAIN obj.v |-> extract_recursive(obj.v[m])])
      [] obj.t = "str" ->
             IF \E ind \in CodeIndicators : Contains(obj.v, ind)
             THEN <<obj.v>> ELSE << >>
      [] OTHER -> << >>

RECURSIVE Join(_, _)
\* sep.join(parts)
Join(parts, sep) ==
    IF parts = << >> THEN << >>
    ELSE IF Len(parts) = 1 THEN parts[1]
    ELSE parts[1] \o sep \o Join(Tail(parts), sep)

_extract_code_from_diff(diff_json) == Join(extract_recursive(diff_json), <<"\n">>)

RECURSIVE DropComments(_, _)
\* the first re.sub of _normalize_code (re.MULTILINE): what stands from a
\* hash sign to the end of its line goes
DropComments(s, inside) ==
    IF s = << >> THEN << >>
    ELSE IF Head(s) = "\n" THEN <<"\n">> \o DropComments(Tail(s), FALSE)
    ELSE IF inside \/ Head(s) = "#" THEN DropComments(Tail(s), TRUE)
    ELSE <<Head(s)>> \o DropComments(Tail(s), FALSE)

RECURSIVE DropTriple(_, _)
\* re.sub of a triple-quoted span (lazy, re.DOTALL) for the quote mark q3
DropTriple(s, q3) ==
    LET i == Find(s, q3, 1)
        c == Find(s, q3, i + 3)
    IN  IF i = 0 \/ c = 0 THEN s
        ELSE SubSeq(s, 1, i - 1) \o DropTriple(SubSeq(s, c + 3, Len(s)), q3)

Apostrophe == "'"

\* comments out, white space out, lower case, quote marks out
_normalize_code(code) ==
    LET bare == DropTriple(DropTriple(DropComments(code, FALSE), <<Q, Q, Q>>),
                           <<Apostrophe, Apostrophe, Apostrophe>>)
        Kept(c) == ~IsSpace(c) /\ c /= Q /\ c /= Apostrophe
    IN  SelectSeq(LowerStr(bare), Kept)

\* the character classes of the token and comparison patterns
IdChars == {Letters[k] : k \in DOMAIN Letters} \cup {Capitals[k] : k \in DOMAIN Capitals}
               \cup {Digits[k] : k \in DOMAIN Digits} \cup {"_"}

OpChars == {">", "<", "=", "!"}

NumChars == {Digits[k] : k \in DOMAIN Digits} \cup {"."}

RECURSIVE RunEnd(_, _, _)
\* the last position of the run of characters of class C that starts at i
RunEnd(s, i, C) ==
    IF i + 1 <= Len(s) /\ s[i + 1] \in C THEN RunEnd(s, i + 1, C) ELSE i

RECURSIVE findall_tokens(_, _)
\* re.findall(r'[a-zA-Z_][a-zA-Z0-9_]*|[><=!]+|[+\-*/]', text) from position i
findall_tokens(text, i) ==
    IF i > Len(text) THEN << >>
    ELSE LET c == text[i]
             e == IF c \in IdChars /\ ~IsDigit(c) THEN RunEnd(text, i, IdChars)
                  ELSE IF c \in OpChars THEN RunEnd(text, i, OpChars)
                  ELSE IF c \in {"+", "-", "*", "/"} THEN i
                  ELSE 0
         IN  IF e = 0 THEN findall_tokens(text, i + 1)
             ELSE <<SubSeq(text, i, e)>> \o findall_tokens(text, e + 1)

\* [t.lower() for t in tokens if len(t) > 1]
extract_tokens(text) ==
    LET tokens == findall_tokens(text, 1)
        Long(t) == Len(t) > 1
    IN  SelectSeq([k \in DOMAIN tokens |-> LowerStr(tokens[k])], Long)

\* matches >= len(solution_tokens) * 0.8
_fuzzy_match(solution, code) ==
    LET solution_tokens == extract_tokens(solution)
        code_tokens == extract_tokens(code)
        matches == Cardinality({k \in DOMAIN solution_tokens :
                                   \E m \in DOMAIN code_tokens :
                                       code_tokens[m] = solution_tokens[k]})
    IN  /\ solution_tokens /= << >>
        /\ 5 * matches >= 4 * Len(solution_tokens)

RECURSIVE findall_comparisons(_, _)
\* re.findall(r'([><=!]+)\s*([0-9.]+)', solution) from position i
findall_comparisons(s, i) ==
    IF i > Len(s) THEN << >>
    ELSE LET e == RunEnd(s, i, OpChars)
             j == SkipSpace(s, e + 1)
             f == RunEnd(s, j, NumChars)
         IN  IF s[i] \in OpChars /\ j <= Len(s) /\ s[j] \in NumChars
             THEN <<[op |-> SubSeq(s, i, e), value |-> SubSeq(s, j, f)]>>
                      \o findall_comparisons(s, f + 1)
             ELSE findall_comparisons(s, i + 1)

\* re.search(rf'{re.escape(op)}\s*{re.escape(value)}', code)
\* (an operator and a number hold no letters, so the case folding of LitAt
\* changes nothing)
ComparisonIn(code, cmp) ==
    \E k \in 1..Len(code) :
        /\ LitAt(code, k, cmp.op)
        /\ LitAt(code, SkipSpace(code, k + Len(cmp.op)), cmp.value)

\* the mutant accepts a solution without any comparison
_pattern_match_vacuous(solution, code) ==
    LET comparisons == findall_comparisons(solution, 1)
    IN  \A k \in DOMAIN comparisons : ComparisonIn(code, comparisons[k])

_pattern_match(solution, code) ==
    LET comparisons == findall_comparisons(solution, 1)
    IN  /\ \A k \in DOMAIN comparisons : ComparisonIn(code, comparisons[k])
        /\ Len(comparisons) > 0

\* the mutant answers false when no step accepts
DeterministicVerifier_verify_bug_fix_rejecting(bugs_doc, bug_diff_json, bug_to_check) ==
    LET bug_spec == _extract_bug_spec(bugs_doc, bug_to_check)
        solution == _extract_solution(bug_spec)
        participant_code == _extract_code_from_diff(bug_diff_json)
        normalized_solution == _normalize_code(solution)
        normalized_participant == _normalize_code(participant_code)
    IN  IF bug_spec = << >> THEN "None"
        ELSE IF solution = << >> THEN "None"
        ELSE IF participant_code = << >> THEN "None"
        ELSE IF Contains(normalized_participant, normalized_solution) THEN "True"
        ELSE IF _fuzzy_match(normalized_solution, normalized_participant) THEN "True"
        ELSE IF _pattern_match(solution, participant_code) THEN "True"
        ELSE "False"

\* the mutant answers False when it finds no block for the bug
DeterministicVerifier_verify_bug_fix_or_false(bugs_doc, bug_diff_json, bug_to_check) ==
    LET bug_spec == _extract_bug_spec(bugs_doc, bug_to_check)
        solution == _extract_solution(bug_spec)
        participant_code == _extract_code_from_diff(bug_diff_json)
        normalized_solution == _normalize_code(solution)
        normalized_participant == _normalize_code(participant_code)
    IN  IF bug_spec = << >> THEN "False"
        ELSE IF solution = << >> THEN "None"
        ELSE IF participant_code = << >> THEN "None"
        ELSE IF Contains(normalized_participant, normalized_solution) THEN "True"
        ELSE IF _fuzzy_match(normalized_solution, normalized_participant) THEN "True"
        ELSE IF _pattern_match(solution, participant_code) THEN "True"
        ELSE "None"

\* DeterministicVerifier.verify_bug_fix: "True" or "None" (no path of the
\* code returns False; an exception is answered None as well)
DeterministicVerifier_verify_bug_fix(bugs_doc, bug_diff_json, bug_to_check) ==
    LET bug_spec == _extract_bug_spec(bugs_doc, bug_to_check)
        solution == _extract_solution(bug_spec)
        participant_code == _extract_code_from_diff(bug_diff_json)
        normalized_solution == _normalize_code(solution)
        normalized_participant == _normalize_code(participant_code)
    IN  IF bug_spec = << >> THEN "None"
        ELSE IF solution = << >> THEN "None"
        ELSE IF participant_code = << >> THEN "None"
        ELSE IF Contains(normalized_participant, normalized_solution) THEN "True"
        ELSE IF _fuzzy_match(normalized_solution, normalized_participant) THEN "True"
        ELSE IF _pattern_match(solution, participant_code) THEN "True"
        ELSE "None"

(***************************************************************************)
(* The verifier on its own: one call on one documentation text, one diff   *)
(* and one bug id.                                                         *)
(***************************************************************************)
DocLexicon ==
    { <<"S", "T", "A", "R", "T", " ", Q, "B", "U", "G", "1", Q, ":">>,
      <<" ", "e", "n", "d", " ", Q, "b", "u", "g", "1", Q>>,
      <<"#", "#", " ", "B", "U", "G", "1", ":", " ">>,
      <<"#", "1", ",", " ", "3", " ", "B", "U", "G", "1", ":", " ">>,
      <<"S", "O", "L", "U", "T", "I", "O", "N", ":", " ", "x", " ", ">", "=", " ", "5", "\n">>,
      <<"S", "O", "L", "U", "T", "I", "O", "N", ":", " ", "\n">>,
      <<"S", "o", "l", "u", "t", "i", "o", "n", ":", " ", Backtick, "a", "=", "b", Backtick, " ">>,
      <<"F", "i", "x", ":", Backtick, Backtick, Backtick, "p", "y", "t", "h", "o", "n", "\n", "K", " ", ">", " ", "2", Backtick, Backtick, Backtick, " ">> }

Docs == {Flatten(ws) : ws \in UNION {[1..n -> DocLexicon] : n \in 0..MaxWords}}

\* diffs as the tracker sends them (parse_git_diff) and in other shapes
Diffs ==
    { JDict(<<[k |-> "files", v |-> JList(<<JDict(<<
          [k |-> "filename", v |-> JStr(<<"a", ".", "p", "y">>)],
          [k |-> "changes", v |-> JList(<<JDict(<<
              [k |-> "added", v |-> JList(<<JStr(<<"i", "f", " ", "x", " ", ">", " ", "5", ":">>)>>)],
              [k |-> "removed", v |-> JList(<<JStr(<<"i", "f", " ", "x", " ", ">", "=", " ", "5", ":">>)>>)]>>)>>)]>>)>>)]>>),
      JDict(<<[k |-> "files", v |-> JList(<<JDict(<<
          [k |-> "changes", v |-> JStr(<<"i", "f", " ", "X", " ", " ", ">", "=", " ", "5", ":", " ", "#", " ", "o", "k">>)]>>)>>)]>>),
      JDict(<<[k |-> "changes", v |-> JStr(<<"b", " ", ">", " ", "2">>)]>>),
      JDict(<<[k |-> "changes", v |-> JStr(<<"b", " ", ">", "=", " ", "6">>)]>>),
      JDict(<<[k |-> "code", v |-> JStr(<<"k", ">", "2">>)]>>),
      JDict(<<[k |-> "raw", v |-> JStr(<<"d", "o", "c", "s", " ", "o", "n", "l", "y">>)]>>) }

InitVerifier ==
    /\ phase = "verifier"
    /\ InitFiles
    /\ dbUp = TRUE
    /\ dbLeaderboard = EmptyMap
    /\ InitRest
    /\ msg = << >>
    /\ bugId = NoBug
    /\ gwReq = NoGwRequest
    /\ gwResp = NoGwResponse
    /\ threads = NoThreads
    /\ teamOrder = <<T7, T9>>
    /\ \E doc \in Docs, diff \in Diffs, b \in 1..2 :
          det = [called |-> FALSE, bugs_doc |-> doc, bug_diff_json |-> diff,
                 bug_to_check |-> BugKey(b), result |-> "None"]

DeterministicVerify ==
    /\ phase = "verifier"
    /\ det' = [det EXCEPT
                  !.called = TRUE,
                  !.result = DeterministicVerifier_verify_bug_fix(
                                 det.bugs_doc, det.bug_diff_json, det.bug_to_check)]
    /\ phase' = "verified"
    /\ UNCHANGED << worldVars, dbUp, teamOrder, hook, response, lastReq, lastCall,
                    calls, nreq, msg, bugId, gwReq, gwResp, threads >>

NextVerifier == DeterministicVerify

SpecVerifier == InitVerifier /\ [][NextVerifier]_vars

(***************************************************************************)
(* The comparison steps of verify_bug_fix on their own: one solution text  *)
(* and one participant text, both already extracted.                       *)
(***************************************************************************)
TokenLexicon == { <<"r", "e", "t", "u", "r", "n">>, <<" ">>, <<"V", "a", "l", "u", "e">>, <<"#", " ", "o", "k", "\n">> }

Solutions == {Flatten(ws) : ws \in UNION {[1..n -> TokenLexicon] : n \in 0..MaxWords}}

ParticipantCodes ==
    { <<"r", "e", "t", "u", "r", "n", " ", "v", "a", "l", "u", "e">>,
      <<"R", "E", "T", "U", "R", "N", " ", " ", " ", "V", "A", "L", "U", "E", " ", " ", "#", " ", "d", "o", "n", "e">>,
      <<"v", "a", "l", "u", "e", " ", "=", " ", "1", "\n", "r", "e", "t", "u", "r", "n", " ", "x">>,
      <<"x", " ", "=", " ", "v", "a", "l", "u", "e">>,
      <<"r", "e", "t", "u", "r", "n", "\n", "v", "a", "l", "u", "e">>,
      <<"y", " ", "=", " ", "2">> }

InitTokens ==
    /\ phase = "tokens"
    /\ InitFiles
    /\ dbUp = TRUE
    /\ dbLeaderboard = EmptyMap
    /\ InitRest
    /\ msg = << >>
    /\ bugId = NoBug
    /\ gwReq = NoGwRequest
    /\ gwResp = NoGwResponse
    /\ threads = NoThreads
    /\ teamOrder = <<T7, T9>>
    /\ \E s \in Solutions, c \in ParticipantCodes :
          det = [called |-> FALSE, solution |-> s, participant_code |-> c,
                 step |-> "none"]

\* lines 41-51 of verify_bug_fix: normalise both texts, then the substring
\* step, then the token-overlap step; step records which one accepted
CompareNormalized ==
    /\ phase = "tokens"
    /\ LET normalized_solution == _normalize_code(det.solution)
           normalized_participant == _normalize_code(det.participant_code)
       IN  det' = [det EXCEPT
                      !.called = TRUE,
                      !.step = IF Contains(normalized_participant, normalized_solution)
                                   THEN "exact"
                               ELSE IF _fuzzy_match(normalized_solution,
                                                    normalized_participant)
                                   THEN "fuzzy"
                               ELSE "none"]
    /\ phase' = "matched"
    /\ UNCHANGED << worldVars, dbUp, teamOrder, hook, response, lastReq, lastCall,
                    calls, nreq, msg, bugId, gwReq, gwResp, threads >>

NextTokens == CompareNormalized

SpecTokens == InitTokens /\ [][NextTokens]_vars

(***************************************************************************)
(* One submission from end to end: verify_with_llm builds the request from *)
(* the parsed diff and the bug description, the gateway runs the           *)
(* deterministic verifier on it and asks the model when the verifier is    *)
(* uncertain, log_bug_fix records the answer.                              *)
(***************************************************************************)
\* code_changes as parse_git_diff returns them: one file, one hunk
ParsedDiff(added, removed) ==
    [extracted |-> TRUE,
     files |-> << [filename |-> <<"a", ".", "p", "y">>,
                   changes |-> << [added |-> added, removed |-> removed] >>] >>]

PipelineCodes ==
    { ParsedDiff(<< <<"i", "f", " ", "x", " ", ">", "=", " ", "5", ":">> >>, << <<"i", "f", " ", "x", " ", ">", " ", "5", ":">> >>),
      ParsedDiff(<< <<"i", "f", " ", "x", " ", ">", " ", "5", ":">> >>, << <<"i", "f", " ", "x", " ", ">", "=", " ", "5", ":">> >>),
      ParsedDiff(<< <<"y", " ", "=", " ", "2">> >>, << <<"y", " ", "=", " ", "1">> >>),
      ParsedDiff(<< <<"n", "o", "t", "e", "s">> >>, << >>) }

\* the entry of domains/<domain>/bugs.json for the bug
BugDescription(solution) ==
    [description |-> <<"o", "f", "f", " ", "b", "y", " ", "o", "n", "e">>,
     expected |-> <<"f", "i", "v", "e", " ", "p", "a", "s", "s", "e", "s">>,
     current |-> <<"f", "i", "v", "e", " ", "f", "a", "i", "l", "s">>,
     files |-> <<"a", ".", "p", "y">>,
     solution |-> solution]

PipelineDescriptions ==
    { BugDescription(<<"x", " ", ">", "=", " ", "5">>), BugDescription(<<"s", "e", "e", " ", "t", "h", "e", " ", "d", "o", "c", "s">>) }

\* json.loads(json.dumps(value)) of a list of strings
JLines(lines) == JList([i \in DOMAIN lines |-> JStr(lines[i])])

\* ... and of the list of file dicts
JFiles(files) ==
    JList([i \in DOMAIN files |->
              JDict(<< [k |-> "filename", v |-> JStr(files[i].filename)],
                       [k |-> "changes",
                        v |-> JList([h \in DOMAIN files[i].changes |->
                                 JDict(<< [k |-> "added",
                                           v |-> JLines(files[i].changes[h].added)],
                                          [k |-> "removed",
                                           v |-> JLines(files[i].changes[h].removed)] >>)])] >>)])

\* bug_diff_json of verify_with_llm as the gateway parses it back
verify_with_llm_bug_diff_json(code_changes) ==
    JDict(<< [k |-> "changed", v |-> JFiles(code_changes.files)],
             [k |-> "files", v |-> JFiles(code_changes.files)] >>)

\* bugs_doc of verify_with_llm
verify_with_llm_bugs_doc(bug_description, bug_id) ==
    <<"\n", "S", "T", "A", "R", "T", " ">> \o Quoted(BugKey(bug_id)) \o <<":", "\n", "D", "E", "S", "C", "R", "I", "P", "T", "I", "O", "N", ":", " ">>
        \o bug_description.description
        \o <<"\n", "E", "X", "P", "E", "C", "T", "E", "D", ":", " ">> \o bug_description.expected
        \o <<"\n", "C", "U", "R", "R", "E", "N", "T", ":", " ">> \o bug_description.current
        \o <<"\n", "F", "I", "L", "E", "S", ":", " ">> \o bug_description.files
        \o <<"\n", "S", "O", "L", "U", "T", "I", "O", "N", ":", " ">> \o bug_description.solution
        \o <<"\n", "E", "N", "D", " ">> \o Quoted(BugKey(bug_id)) \o <<"\n">>

InitPipeline ==
    /\ phase = "pipeline"
    /\ InitFiles
    /\ dbUp = TRUE
    /\ dbLeaderboard = EmptyMap
    /\ InitRest
    /\ msg = << >>
    /\ bugId = NoBug
    /\ gwResp = NoGwResponse
    /\ threads = NoThreads
    /\ teamOrder = <<T7, T9>>
    /\ \E b \in 1..2 :
          /\ \E l \in LlmOutcomes(BugKey(b)) :
                gwReq = [bug_to_check |-> BugKey(b), det |-> "None", llm |-> l]
          /\ \E c \in PipelineCodes, d \in PipelineDescriptions :
                det = [called |-> FALSE, bug_id |-> b, code_changes |-> c,
                       bug_description |-> d, bugs_doc |-> << >>,
                       bug_diff_json |-> JList(<< >>),
                       bug_to_check |-> BugKey(b), result |-> "None"]

\* verify_with_llm up to the POST
PipelinePost ==
    /\ phase = "pipeline"
    /\ det' = [det EXCEPT
                  !.bugs_doc = verify_with_llm_bugs_doc(det.bug_description, det.bug_id),
                  !.bug_diff_json = verify_with_llm_bug_diff_json(det.code_changes)]
    /\ phase' = "posted"
    /\ UNCHANGED << worldVars, dbUp, teamOrder, hook, response, lastReq, lastCall,
                    calls, nreq, msg, bugId, gwReq, gwResp, threads >>

\* POST /verify: the verifier's verdict, then the handler's answer
PipelineGateway ==
    /\ phase = "posted"
    /\ \E deterministic_result \in
              {DeterministicVerifier_verify_bug_fix(
                   det.bugs_doc, det.bug_diff_json, det.bug_to_check)} :
           /\ det' = [det EXCEPT !.called = TRUE, !.result = deterministic_result]
           /\ gwReq' = [gwReq EXCEPT !.det = deterministic_result]
           /\ gwResp' = verify_bug_fix(gwReq.bug_to_check, deterministic_result,
                                       gwReq.llm)
    /\ phase' = "judged"
    /\ UNCHANGED << worldVars, dbUp, teamOrder, hook, response, lastReq, lastCall,
                    calls, nreq, msg, bugId, threads >>

\* the rest of log_bug_fix with what verify_with_llm returns
PipelineLog ==
    /\ phase = "judged"
    /\ LET commit == IF det.bug_id = 1 THEN Commit1 ELSE Commit2
           env == [code |-> det.code_changes, desc |-> TRUE,
                   res |-> verify_with_llm_result(gwResp),
                   now |-> <<0, 0>>, dbFail |-> FALSE]
       IN  /\ SetWorld(log_bug_fix(World, T7, det.bug_id, Nlp, commit, env))
           /\ lastCall' = CallRecord("log_bug_fix", T7, det.bug_id, env, TRUE,
                                     BuildSubmission(T7, det.bug_id, Nlp, commit, env))
    /\ phase' = "logged"
    /\ UNCHANGED << dbUp, teamOrder, hook, response, lastReq,
                    calls, nreq, msg, bugId, gwReq, gwResp, threads, det >>

NextPipeline ==
    \/ PipelinePost
    \/ PipelineGateway
    \/ PipelineLog

SpecPipeline == InitPipeline /\ [][NextPipeline]_vars

(***************************************************************************)
(* Properties.                                                             *)
(***************************************************************************)
\* the clock reading a stored timestamp was printed from
ParseTime(s) == CHOOSE t \in Times : isoformat(t) = s

Earlier(a, b) == TimeBefore(ParseTime(a), ParseTime(b))

\* C1: in the leaderboard written by update_leaderboard, an entry with more
\* points has the smaller rank, and of two entries with equal points the one
\* whose last submission is earlier has the smaller rank.
C1_RanksOrdered ==
    \A i, j \in DOMAIN leaderboard :
        LET A == leaderboard[i]
            B == leaderboard[j]
        IN  /\ A.total_points > B.total_points => A.rank < B.rank
            /\ (A.total_points = B.total_points
                  /\ Earlier(A.last_submission, B.last_submission))
               => A.rank < B.rank

\* two teams tie on points, and the one listed second by the directory
\* listing submitted earlier
C1_Witness ==
    /\ Len(leaderboard) = 2
    /\ leaderboard[1].total_points = 10
    /\ leaderboard[2].total_points = 10
    /\ Earlier(leaderboard[1].last_submission, leaderboard[2].last_submission)
    /\ teamOrder = <<leaderboard[2].team_id, leaderboard[1].team_id>>

\* the submission files of a team
FilesOf(team_id) ==
    {bugFixes[k] : k \in {k \in DOMAIN bugFixes : k[1] = team_id}}

RECURSIVE SumPoints(_)
SumPoints(S) ==
    IF S = {} THEN 0
    ELSE LET x == CHOOSE x \in S : TRUE IN x.points + SumPoints(S \ {x})

\* C2: whenever a team has submission files, its progress record is the
\* fold over them: the number of files, the number of verified ones, the sum
\* of the points of the verified ones and the greatest submission time.
C2_ProgressIsFold ==
    \A team_id \in Teams :
        FilesOf(team_id) /= {} =>
            /\ team_id \in DOMAIN progress
            /\ LET p == progress[team_id]
                   files == FilesOf(team_id)
                   verified == {f \in files : f.verified}
               IN  /\ p.total_submissions = Cardinality(files)
                   /\ p.verified_submissions = Cardinality(verified)
                   /\ p.total_points = SumPoints(verified)
                   /\ \E f \in files : f.submission_time = p.last_submission
                   /\ \A f \in files :
                          ~Earlier(p.last_submission, f.submission_time)

\* a team holds a verified and a rejected submission, and the file listed
\* first carries the later time
C2_Witness ==
    /\ {<<T7, 1>>, <<T7, 2>>} \subseteq DOMAIN bugFixes
    /\ bugFixes[<<T7, 1>>].verified
    /\ ~bugFixes[<<T7, 2>>].verified
    /\ Earlier(bugFixes[<<T7, 2>>].submission_time,
               bugFixes[<<T7, 1>>].submission_time)
    /\ progress[T7].total_points = 10

\* the fields a leaderboard row shares with the progress record of its team
RowMatches(row, p) ==
    /\ row.team_id = p.team_id
    /\ row.bugs_solved = p.verified_submissions
    /\ row.total_points = p.total_points
    /\ row.last_submission = p.last_submission
    /\ row.domain = p.domain

\* leaderboard.json holds exactly one row per progress file
FileIsRecomputation ==
    /\ Len(leaderboard) = Cardinality(DOMAIN progress)
    /\ {leaderboard[i].team_id : i \in DOMAIN leaderboard} = DOMAIN progress
    /\ \A i \in DOMAIN leaderboard :
           RowMatches(leaderboard[i], progress[leaderboard[i].team_id])

\* the leaderboard collection holds exactly one row per progress file
CollectionIsRecomputation ==
    /\ DOMAIN dbLeaderboard = DOMAIN progress
    /\ \A t \in DOMAIN dbLeaderboard : RowMatches(dbLeaderboard[t], progress[t])

\* C3: after a submission write whose database calls went through, the
\* leaderboard file and the leaderboard collection both hold exactly one row
\* per team with a progress file, equal to that progress record, and no
\* other row.
C3_LeaderboardReplaced ==
    (lastCall.op = "log_bug_fix" /\ dbUp /\ ~lastCall.db_failed)
        => FileIsRecomputation /\ CollectionIsRecomputation

\* C4: a run of update_leaderboard on its own, the progress files being what
\* they were at the previous run, leaves leaderboard.json as it was: same
\* entries, same order, same ranks.
C4_RecomputeIdempotent ==
    [][RecomputeLeaderboard => leaderboard' = leaderboard]_vars

\* update_leaderboard has just been run again over two teams that tie on the
\* sort key
C4_Witness ==
    /\ lastReq.event = "update_leaderboard"
    /\ Len(leaderboard) = 2
    /\ leaderboard[1].total_points = leaderboard[2].total_points
    /\ leaderboard[1].last_submission = leaderboard[2].last_submission

(***************************************************************************)
(* What it means for a message to reference a bug, stated on positions:    *)
(* pattern k matches at start i when the keyword stands at i (in either    *)
(* case), a run of "#" and blanks follows (none for the bare "#N"), and    *)
(* digits stand at j..e.                                                   *)
(***************************************************************************)
RefKeywords ==
    << <<"b", "u", "g">>, <<"f", "i", "x">>, <<"#">>, <<"B", "U", "G">> >>

KeywordAt(s, k, i) ==
    /\ i + Len(RefKeywords[k]) - 1 <= Len(s)
    /\ \A n \in 1..Len(RefKeywords[k]) :
           Lower(s[i + n - 1]) = Lower(RefKeywords[k][n])

\* the digit runs <<j, e>> that pattern k can capture when it starts at i
CapturesAt(s, k, i) ==
    IF ~KeywordAt(s, k, i) THEN {}
    ELSE LET a == i + Len(RefKeywords[k])
         IN  {je \in (a..Len(s)) \X (a..Len(s)) :
                 /\ je[1] <= je[2]
                 /\ (k = 3 => je[1] = a)
                 /\ \A n \in a..(je[1] - 1) : s[n] \in {"#", " "}
                 /\ \A n \in je[1]..je[2] : IsDigit(s[n])}

PatternMatches(s, k) == \E i \in 1..Len(s) : CapturesAt(s, k, i) /= {}

References(s) == \E k \in 1..4 : PatternMatches(s, k)

\* the number the first matching pattern captures: leftmost start, longest
\* run of digits
CapturedNumber(s) ==
    LET k == CHOOSE k \in 1..4 :
                 PatternMatches(s, k) /\ \A h \in 1..(k - 1) : ~PatternMatches(s, h)
        i == CHOOSE i \in 1..Len(s) :
                 CapturesAt(s, k, i) /= {}
                   /\ \A h \in 1..(i - 1) : CapturesAt(s, k, h) = {}
        je == CHOOSE je \in CapturesAt(s, k, i) :
                  \A o \in CapturesAt(s, k, i) : o[2] <= je[2]
    IN  StrToInt(SubSeq(s, je[1], je[2]))

\* the last request was a push to a team repository and has been answered
PushProcessed ==
    /\ lastReq.event = "push"
    /\ ~hook.active
    /\ response.kind = "processed"

\* C5: a push to team-<id>-<domain> with exactly one commit, whose message
\* references bug N, stores one Submission with team_id <id>, bug_id N and
\* domain <domain>, and is answered with commits_processed = 1.
C5_OneCommitOneSubmission ==
    PushProcessed =>
        LET pl == ParsePayload(lastReq).payload
        IN  \A id \in Teams, domain \in {Nlp, Cv} :
                (/\ pl.name = TeamPrefix \o id \o <<"-">> \o domain
                 /\ Len(pl.commits) = 1
                 /\ References(pl.commits[1].message))
                => LET N == CapturedNumber(pl.commits[1].message)
                   IN  /\ Len(calls) = 1
                       /\ <<id, N>> \in DOMAIN bugFixes
                       /\ bugFixes[<<id, N>>].team_id = id
                       /\ bugFixes[<<id, N>>].bug_id = N
                       /\ bugFixes[<<id, N>>].domain = domain
                       /\ bugFixes[<<id, N>>].commit_hash = pl.commits[1].id
                       /\ response.commits_processed = 1

\* C6: the log_bug_fix invocations of a push to a team repository are, in
\* commit order, exactly its commits whose message matches a bug-reference
\* pattern, each with the captured number, and commits_processed is their
\* count.
C6_OnceForEveryMatchingCommit ==
    PushProcessed =>
        LET commits == ParsePayload(lastReq).payload.commits
            IsRef(c) == References(c.message)
            matching == SelectSeq(commits, IsRef)
        IN  /\ calls = [i \in 1..Len(matching) |->
                           [id |-> matching[i].id,
                            bug_id |-> CapturedNumber(matching[i].message)]]
            /\ response.commits_processed = Len(matching)

\* a webhook request has just been received
WebhookArrives ==
    /\ nreq' = nreq + 1
    /\ lastReq'.event \notin {"manual_verify", "update_leaderboard"}

\* the request carries a payload that names a repository outside "team-"
NotATeamRepo(req) ==
    LET parsed == ParsePayload(req)
        name == parsed.payload.name
    IN  /\ parsed.ok
        /\ ~parsed.payload.empty
        /\ parsed.payload.has_repo
        /\ name /= << >>
        /\ (Len(name) < 5 \/ SubSeq(name, 1, 5) /= <<"t", "e", "a", "m", "-">>)

\* C7: a request whose event is not "push" is answered 200 ignored / not a
\* push event whatever its body is; a push for a repository whose name does
\* not start with "team-" is answered 200 ignored / not a team repo; neither
\* changes a submission, a progress record, the leaderboard or the database,
\* and neither enters the commit loop.
C7_FiltersIgnore ==
    [][WebhookArrives =>
          /\ lastReq'.event /= "push" =>
                 /\ response' = Resp(200, "ignored", "not a push event")
                 /\ UNCHANGED worldVars
                 /\ hook' = Idle
          /\ (lastReq'.event = "push" /\ NotATeamRepo(lastReq')) =>
                 /\ response' = Resp(200, "ignored", "not a team repo")
                 /\ UNCHANGED worldVars
                 /\ hook' = Idle]_vars

\* a pull_request event whose body is not JSON has been ignored, after a
\* submission was stored
C7_Witness ==
    /\ lastReq.event = "pull_request"
    /\ lastReq.data = Malformed
    /\ response = Resp(200, "ignored", "not a push event")
    /\ bugFixes /= EmptyMap

\* C8: extract_bug_id returns the number captured by the first of the
\* patterns bug#N, fix#N, #N, BUG#N (in this order, letters in either case)
\* that matches somewhere in the message, wherever that is, and None when
\* none matches.
C8_FirstPatternWins ==
    phase = "extracted" =>
        bugId = (IF References(msg) THEN CapturedNumber(msg) ELSE NoBug)

\* "fix#2 bug#1": the fix reference comes first in the text, the bug pattern
\* first in the order
C8_Witness ==
    /\ phase = "extracted"
    /\ msg = <<"f", "i", "x", "#", "2", " ", "b", "u", "g", "#", "1">>
    /\ bugId = 1

\* the deterministic verdict as the gateway prints it: {"BUGn": "true"} or
\* {"BUGn": "false"}
VerdictText(key, verdict) ==
    <<"{", "\"">> \o key \o <<"\"", ":", " ", "\"">> \o verdict \o <<"\"", "}">>

\* the gateway answered from the deterministic verdict, without the model
AnsweredDeterministic ==
    /\ ~gwResp.llm_contacted
    /\ gwResp.status = 200
    /\ gwResp.method = "deterministic"
    /\ gwResp.verification_result =
           VerdictText(gwReq.bug_to_check,
                       IF gwReq.det = "True" THEN <<"t", "r", "u", "e">>
                       ELSE <<"f", "a", "l", "s", "e">>)

\* the gateway asked the model and passed its cleaned answer on
AnsweredLlm ==
    /\ gwResp.llm_contacted
    /\ gwResp.status = 200
    /\ gwResp.method = "llm"
    /\ gwResp.verification_result = clean_llm_response(gwReq.llm.content)

\* C9: the gateway contacts the model exactly when the deterministic
\* verifier was uncertain; a concrete verdict is returned tagged
\* "deterministic"; when the model was asked and answered, its cleaned
\* answer is returned tagged "llm"; when the call to the model failed, the
\* gateway answers with an HTTP error that carries no verdict and no tag.
C9_DeterministicFirst ==
    phase = "answered" =>
        /\ gwResp.llm_contacted <=> gwReq.det = "None"
        /\ gwReq.det /= "None" => AnsweredDeterministic
        /\ (gwReq.det = "None" /\ gwReq.llm.kind = "text") => AnsweredLlm
        /\ (gwReq.det = "None" /\ gwReq.llm.kind /= "text") =>
               /\ gwResp.status >= 400
               /\ gwResp.method = ""
               /\ gwResp.verification_result = << >>

\* C9 as stated: whenever the deterministic verifier was uncertain the
\* cleaned answer of the model comes back tagged "llm".
C9_AsStated ==
    phase = "answered" =>
        /\ gwResp.llm_contacted <=> gwReq.det = "None"
        /\ gwReq.det /= "None" => AnsweredDeterministic
        /\ gwReq.det = "None" => AnsweredLlm

\* the verifier was uncertain and the model's answer, wrapped in prose, came
\* back cleaned and tagged "llm"
C9_Witness ==
    /\ phase = "answered"
    /\ gwReq.det = "None"
    /\ gwReq.llm.kind = "text"
    /\ gwReq.llm.content /= gwResp.verification_result
    /\ gwResp.method = "llm"
    /\ gwResp.verification_result = VerdictText(gwReq.bug_to_check, <<"t", "r", "u", "e">>)

\* the teams on the leaderboard, with their points
BoardPoints == {<<leaderboard[i].team_id, leaderboard[i].total_points>> :
                   i \in DOMAIN leaderboard}

\* C10: a log_bug_fix call for which no diff was extracted, or an empty
\* one, or no bug description was found, makes no call to the gateway and
\* writes a Submission with verified false, 0 points and method "none";
\* the team's progress and the leaderboard are then those recomputed with
\* it.
C10_SkipsVerification ==
    (lastCall.op = "log_bug_fix"
       /\ (~lastCall.code.extracted \/ lastCall.code.files = << >> \/ ~lastCall.desc))
    => LET key == <<lastCall.team_id, lastCall.bug_id>>
       IN  /\ ~lastCall.gateway_called
           /\ key \in DOMAIN bugFixes
           /\ bugFixes[key] = lastCall.written
           /\ ~bugFixes[key].verified
           /\ bugFixes[key].points = 0
           /\ bugFixes[key].verification_method = "none"
           /\ \E i \in DOMAIN progress[lastCall.team_id].submissions :
                  progress[lastCall.team_id].submissions[i] = bugFixes[key]
           /\ <<lastCall.team_id, progress[lastCall.team_id].total_points>>
                  \in BoardPoints

\* a diff was extracted but the bug has no description: the submission is
\* stored unverified in place of a verified one, and the team is back to 0
C10_Witness ==
    /\ lastCall.op = "log_bug_fix"
    /\ lastCall.code = CodeSome
    /\ ~lastCall.desc
    /\ ~lastCall.gateway_called
    /\ lastCall.reopens = <<"no bug description">>
    /\ progress[lastCall.team_id].total_submissions = 1
    /\ progress[lastCall.team_id].total_points = 0
    /\ nreq = 2
    /\ dbManualReview /= EmptyMap

\* a step in which the webhook invokes log_bug_fix
LogsCommit == Len(calls') = Len(calls) + 1

\* C11: a log_bug_fix call for a pair that already has a Submission leaves
\* the pair with one file, holding the record of the new call alone (its
\* commit, time, verdict and points), and the team's progress counts the
\* pair once, with the new verdict and points.
C11_ResubmissionReplaces ==
    [][(LogsCommit /\ <<lastCall'.team_id, lastCall'.bug_id>> \in DOMAIN bugFixes)
       => LET key == <<lastCall'.team_id, lastCall'.bug_id>>
              new == bugFixes'[key]
              others == {k \in DOMAIN bugFixes : k[1] = key[1] /\ k /= key}
              verifiedOthers == {k \in others : bugFixes[k].verified}
          IN  /\ DOMAIN bugFixes' = DOMAIN bugFixes
              /\ new = lastCall'.written
              /\ new.commit_hash = calls'[Len(calls')].id
              /\ new.verified =
                     (lastCall'.gateway_called
                        /\ (Contains(new.llm_verification,
                                     VerdictText(BugKey(key[2]), <<"t", "r", "u", "e">>))
                              \/ Contains(new.llm_verification,
                                          CompactPair(BugKey(key[2]), StrTrue))))
              /\ new.points = (IF new.verified THEN 10 ELSE 0)
              /\ progress'[key[1]].total_submissions = Cardinality(others) + 1
              /\ progress'[key[1]].verified_submissions =
                     Cardinality(verifiedOthers) + (IF new.verified THEN 1 ELSE 0)
              /\ progress'[key[1]].total_points =
                     10 * Cardinality(verifiedOthers) + new.points]_vars

\* a verified submission (its manual-review row is there) has been replaced
\* by a rejected one of a later commit: the team is back to 0 points
C11_Witness ==
    /\ lastCall.op = "log_bug_fix"
    /\ lastCall.gateway_called
    /\ DocumentId(lastCall.team_id, lastCall.bug_id) \in DOMAIN dbManualReview
    /\ ~bugFixes[<<lastCall.team_id, lastCall.bug_id>>].verified
    /\ progress[lastCall.team_id].total_submissions = 1
    /\ progress[lastCall.team_id].total_points = 0

\* a step in which POST /verify/<team_id>/<bug_id> is handled
ManuallyVerifies == nreq' = nreq + 1 /\ lastReq'.event = "manual_verify"

\* C12: a manual re-verification leaves every other submission file as it
\* was and, in the file of its pair, team_id, bug_id, domain, commit_hash,
\* commit_message, submission_time and code_changes as they were.
C12_ReverifyKeepsIdentity ==
    [][ManuallyVerifies
       => /\ DOMAIN bugFixes' = DOMAIN bugFixes
          /\ \A k \in DOMAIN bugFixes :
                 /\ bugFixes'[k].team_id = bugFixes[k].team_id
                 /\ bugFixes'[k].bug_id = bugFixes[k].bug_id
                 /\ bugFixes'[k].domain = bugFixes[k].domain
                 /\ bugFixes'[k].commit_hash = bugFixes[k].commit_hash
                 /\ bugFixes'[k].commit_message = bugFixes[k].commit_message
                 /\ bugFixes'[k].submission_time = bugFixes[k].submission_time
                 /\ bugFixes'[k].code_changes = bugFixes[k].code_changes
                 /\ (k /= <<lastCall'.team_id, lastCall'.bug_id>>
                       => bugFixes'[k] = bugFixes[k])]_vars

\* a submission the webhook had verified (its manual-review row is there)
\* has been re-verified and rejected: verdict and points are rewritten
C12_Witness ==
    /\ lastCall.op = "manually_verify_bug"
    /\ response.kind = "reverified"
    /\ ~response.verified
    /\ DocumentId(lastCall.team_id, lastCall.bug_id) \in DOMAIN dbManualReview
    /\ bugFixes[<<lastCall.team_id, lastCall.bug_id>>].points = 0
    /\ bugFixes[<<lastCall.team_id, lastCall.bug_id>>].commit_hash = "c1"

\* C13: a log_bug_fix call or a re-verification writes the submission,
\* progress and leaderboard files that follow from the files and its inputs
\* alone, whether the database is connected, down since start-up, or
\* raising on a write; in the last two cases no collection changes.  The
\* re-verification answers 200 in all three.
C13_FilesWithoutDatabase ==
    [][(LogsCommit \/ (ManuallyVerifies /\ lastCall'.gateway_called))
       => LET key == <<lastCall'.team_id, lastCall'.bug_id>>
          IN  /\ bugFixes' = Put(bugFixes, key, lastCall'.written)
              /\ progress' =
                     Put(progress, key[1],
                         BuildProgress([World EXCEPT !.bugFixes = bugFixes'], key[1]))
              /\ leaderboard' =
                     AssignRanks(list_sort(
                         LoadEntries([World EXCEPT !.progress = progress'])))
              /\ (ManuallyVerifies => response'.code = 200)
              /\ (~dbUp \/ lastCall'.db_failed)
                    => UNCHANGED << dbLeaderboard, dbManualReview >>]_vars

\* the database raised on the writes of a verified submission: the files
\* show the team at 10 points, the collection still shows it at 0
C13_Witness ==
    /\ dbUp
    /\ lastCall.op = "log_bug_fix"
    /\ lastCall.db_failed
    /\ lastCall.written.verified
    /\ Len(leaderboard) = 1
    /\ leaderboard[1].total_points = 10
    /\ leaderboard[1].team_id \in DOMAIN dbLeaderboard
    /\ dbLeaderboard[leaderboard[1].team_id].total_points = 0
    /\ dbManualReview = EmptyMap

\* the ids of the entries of the list that have one
ValidIds(L) ==
    {id \in {T7, T9} :
        \E i \in DOMAIN L :
            \/ L[i].team_id = id
            \/ L[i].team_id = << >> /\ L[i].team = id
            \/ L[i].team_id = << >> /\ L[i].team = << >> /\ L[i].id = id}

\* C14: after db.upsert_leaderboard(L) the collection has one row for every
\* team id that an entry of L carries and no other row; an empty L leaves it
\* empty.
C14_SyncReplacesCollection ==
    phase = "synced_db" =>
        /\ DOMAIN dbLeaderboard = ValidIds(leaderboard)
        /\ \A id \in DOMAIN dbLeaderboard :
               /\ dbLeaderboard[id].team_id = id
               /\ \E i \in DOMAIN leaderboard :
                      dbLeaderboard[id].total_points = leaderboard[i].total_points
        /\ (leaderboard = << >> => dbLeaderboard = EmptyMap)

\* the list names team 9 under the key "team" and has an entry without an
\* id: the collection holds the row of team 9 and nothing else
C14_Witness ==
    /\ phase = "synced_db"
    /\ leaderboard = << SyncEntry(<< >>, T9, << >>, 10),
                        SyncEntry(<< >>, << >>, << >>, 10) >>
    /\ DOMAIN dbLeaderboard = {T9}
    /\ dbLeaderboard[T9].team_id = T9
    /\ dbLeaderboard[T9].total_points = 10

\* C15: a call of update_mongodb_leaderboard, whatever list it is given
\* (the empty one included) and whatever the database does, leaves every
\* row of the collection in place: the key set can only grow.
C15_TrackerSyncNeverDeletes ==
    [][phase' = "synced_tracker"
       => DOMAIN dbLeaderboard \subseteq DOMAIN dbLeaderboard']_vars

\* the list names team 7 only: its row is rewritten and the row of team 9,
\* which the list does not name, is still there
C15_Witness ==
    /\ phase = "synced_tracker"
    /\ dbUp
    /\ leaderboard = << SyncEntry(T7, << >>, << >>, 10) >>
    /\ DOMAIN dbLeaderboard = {T7, T9}
    /\ dbLeaderboard[T7].total_points = 10
    /\ dbLeaderboard[T9] = OldRow(T9)


\* the world a call leaves when it runs alone, from start to end
RunCall(W, c) == log_bug_fix(W, c.team_id, c.bug_id, c.domain, c.commit, c.env)

\* the world after call a has run to its end and call b after it, from the
\* empty working directory
OneAfterTheOther(a, b) ==
    RunCall(RunCall([bugFixes |-> EmptyMap, progress |-> EmptyMap,
                     leaderboard |-> << >>, dbLeaderboard |-> EmptyMap,
                     dbManualReview |-> EmptyMap],
                    threads[a].call),
            threads[b].call)

Quiescent == phase = "race" /\ \A t \in 1..2 : threads[t].pc = "done"

SamePair ==
    /\ threads[1].call.team_id = threads[2].call.team_id
    /\ threads[1].call.bug_id = threads[2].call.bug_id

\* C16: when two submissions for the same (team, bug) pair are processed
\* concurrently and both have finished, the stored submission is the whole
\* record of the call that wrote last, and the progress files and the
\* leaderboard are those that one of the two sequential orders leaves.
C16_LastWriterWins ==
    (Quiescent /\ SamePair) =>
        /\ bugFixes[<<threads[1].call.team_id, threads[1].call.bug_id>>]
               = lastCall.written
        /\ \E o \in {<<1, 2>>, <<2, 1>>} :
              /\ progress = OneAfterTheOther(o[1], o[2]).progress
              /\ leaderboard = OneAfterTheOther(o[1], o[2]).leaderboard

\* the request is a push whose payload names a repository under "team-"
TeamRepoPush(req) ==
    LET parsed == ParsePayload(req)
        name == parsed.payload.name
    IN  /\ req.event = "push"
        /\ parsed.ok
        /\ ~parsed.payload.empty
        /\ parsed.payload.has_repo
        /\ Len(name) >= 5
        /\ SubSeq(name, 1, 5) = <<"t", "e", "a", "m", "-">>

\* the positions of the hyphens of a name, in ascending order
Hyphens(name) ==
    LET H == {k \in 1..Len(name) : name[k] = "-"}
        Rank(k) == Cardinality({h \in H : h <= k})
    IN  [n \in 1..Cardinality(H) |-> CHOOSE k \in H : Rank(k) = n]

\* C17: a push for a repository whose name starts with "team-" is read by
\* its hyphen-delimited segments: with at least three segments the commits
\* are processed for team id = the second segment and domain = the third
\* segment, whatever follows the third; with fewer than three segments the
\* answer is 400 and no file or collection changes.
C17_SegmentsOfRepoName ==
    [][(WebhookArrives /\ TeamRepoPush(lastReq')) =>
          LET name == ParsePayload(lastReq').payload.name
              h == Hyphens(name)
          IN  IF Len(h) >= 2
              THEN /\ hook'.active
                   /\ hook'.team_id = SubSeq(name, h[1] + 1, h[2] - 1)
                   /\ hook'.domain =
                          SubSeq(name, h[2] + 1,
                                 IF Len(h) >= 3 THEN h[3] - 1 ELSE Len(name))
                   /\ UNCHANGED worldVars
              ELSE /\ response' = Resp(400, "error", "Invalid team repo name format")
                   /\ hook' = Idle
                   /\ UNCHANGED worldVars]_vars

\* the first push, to "team-7-nlp-x", has been processed and its commit is
\* stored as team 7's bug 1 in domain nlp
C17_Witness ==
    /\ nreq = 1
    /\ lastReq.data.payload.name = RepoLong
    /\ response.kind = "processed"
    /\ response.team_id = T7
    /\ <<T7, 1>> \in DOMAIN bugFixes
    /\ bugFixes[<<T7, 1>>].domain = Nlp

\* a run of one or more white-space characters stands at i..j-1
Blank(s, i, j) == i < j /\ j <= Len(s) + 1 /\ \A k \in i..(j - 1) : IsSpace(s[k])

\* the text holds a START "id": ... END "id" block
HasBlock(doc, id) ==
    \E i \in 1..Len(doc) :
        /\ LitAt(doc, i, <<"S", "T", "A", "R", "T">>)
        /\ \E j \in (i + 6)..Len(doc) :
              /\ Blank(doc, i + 5, j)
              /\ LitAt(doc, j, Quoted(id) \o <<":">>)
              /\ \E e \in (j + Len(id) + 3)..Len(doc) :
                    /\ LitAt(doc, e, <<"E", "N", "D">>)
                    /\ \E f \in (e + 4)..Len(doc) :
                          Blank(doc, e + 3, f) /\ LitAt(doc, f, Quoted(id))

\* a heading for the id stands at i: one to three "#", the id after optional
\* white space, then colons or white space; j is where its text begins
HeadingAt(doc, id, i, j) ==
    /\ i <= Len(doc) /\ doc[i] = "#"
    /\ \E b \in (i + 1)..Len(doc) :
          /\ LitAt(doc, b, id)
          /\ \E h \in 1..3 :
                /\ i + h <= b
                /\ \A k \in i..(i + h - 1) : doc[k] = "#"
                /\ \A k \in (i + h)..(b - 1) : IsSpace(doc[k])
          /\ b + Len(id) < j /\ j <= Len(doc) + 1
          /\ \A k \in (b + Len(id))..(j - 1) : doc[k] = ":" \/ IsSpace(doc[k])
          /\ (j <= Len(doc) => ~(doc[j] = ":" \/ IsSpace(doc[j])))

HasHeading(doc, id) ==
    \E i \in 1..Len(doc) :
        doc[i] = "#" /\ \E j \in (i + 1)..(Len(doc) + 1) : HeadingAt(doc, id, i, j)

Verified == phase = "verified" /\ det.called

\* C18: verify_bug_fix answers uncertain (None), never false, whenever the
\* documentation holds neither a START/END block nor a markdown heading for
\* the requested bug id.
C18_NoBlockIsUncertain ==
    (Verified /\ det.result /= "None") =>
        \/ HasBlock(det.bugs_doc, det.bug_to_check)
        \/ HasHeading(det.bugs_doc, det.bug_to_check)

\* uncertain on a text that names the bug in a START marker without an END
\* and holds a solution line the diff satisfies
C18_Witness ==
    /\ Verified
    /\ det.bug_to_check = BugKey(1)
    /\ ~HasBlock(det.bugs_doc, det.bug_to_check)
    /\ ~HasHeading(det.bugs_doc, det.bug_to_check)
    /\ LitAt(det.bugs_doc, 1, <<"S", "T", "A", "R", "T", " ", Q, "B", "U", "G", "1", Q, ":", "S", "O", "L", "U", "T", "I", "O", "N", ":", " ", "x", " ", ">", "=", " ", "5">>)
    /\ Contains(_normalize_code(_extract_code_from_diff(det.bug_diff_json)),
                <<"x", ">", "=", "5">>)
    /\ det.result = "None"

\* the text of the first heading for the id: from after the heading to the
\* next "#" or the end of the document, stripped
HeadingText(doc, id) ==
    LET I == {i \in 1..Len(doc) :
                 doc[i] = "#" /\ \E j \in (i + 1)..(Len(doc) + 1) : HeadingAt(doc, id, i, j)}
        i0 == CHOOSE i \in I : \A k \in I : i <= k
        j0 == CHOOSE j \in 1..(Len(doc) + 1) : HeadingAt(doc, id, i0, j)
        next == {k \in j0..Len(doc) : doc[k] = "#"}
        e == IF next = {} THEN Len(doc) + 1
             ELSE CHOOSE k \in next : \A m \in next : k <= m
    IN  Strip(SubSeq(doc, j0, e - 1))

\* C19: when the documentation has no START/END block for the bug id but
\* has a markdown heading of one to three "#" followed by the id,
\* _extract_bug_spec returns the text after that heading up to the next
\* heading or the end of the document, and the verdict is the one that
\* verification on that text gives.
C19_HeadingFallback ==
    (Verified /\ ~HasBlock(det.bugs_doc, det.bug_to_check)
              /\ HasHeading(det.bugs_doc, det.bug_to_check)) =>
        /\ _extract_bug_spec(det.bugs_doc, det.bug_to_check)
               = HeadingText(det.bugs_doc, det.bug_to_check)
        /\ det.result =
               DeterministicVerifier_verify_bug_fix(
                   <<"S", "T", "A", "R", "T", " ", Q, "X", Q, ":">> \o HeadingText(det.bugs_doc, det.bug_to_check)
                       \o <<" ", "E", "N", "D", " ", Q, "X", Q>>,
                   det.bug_diff_json, <<"X">>)

\* the verifier's three inputs as verify_bug_fix sees them
BugSpec == _extract_bug_spec(det.bugs_doc, det.bug_to_check)

Solution == _extract_solution(BugSpec)

ParticipantCode == _extract_code_from_diff(det.bug_diff_json)

\* every operator+number pair of the solution occurs in the diff text, and
\* there is one
PairsOccur ==
    LET pairs == findall_comparisons(Solution, 1)
    IN  /\ pairs /= << >>
        /\ \A k \in DOMAIN pairs : ComparisonIn(ParticipantCode, pairs[k])

\* C20: with a located block, an extractable solution and a non-empty
\* flattened diff, the verdict is true when the normalized solution is a
\* substring of the normalized diff text, else true when the token overlap
\* passes, else true when the solution has an operator+number pair and every
\* such pair occurs in the unnormalized diff text, else uncertain; a block
\* whose solution is the line "SOLUTION: x >= 5" with a diff whose normalized
\* text contains "x>=5" gives true.
C20_VerdictCascade ==
    (Verified /\ BugSpec /= << >> /\ Solution /= << >> /\ ParticipantCode /= << >>) =>
        /\ det.result =
               (IF Contains(_normalize_code(ParticipantCode), _normalize_code(Solution))
                THEN "True"
                ELSE IF _fuzzy_match(_normalize_code(Solution),
                                     _normalize_code(ParticipantCode))
                THEN "True"
                ELSE IF PairsOccur THEN "True"
                ELSE "None")
        /\ (/\ Contains(BugSpec, <<"S", "O", "L", "U", "T", "I", "O", "N", ":", " ", "x", " ", ">", "=", " ", "5">>)
            /\ Solution = <<"x", " ", ">", "=", " ", "5">>
            /\ Contains(_normalize_code(ParticipantCode), <<"x", ">", "=", "5">>))
               => det.result = "True"

\* true by the third step alone: the solution "K > 2" is no substring of the
\* diff "b > 2", shares no token with it, and its pair "> 2" occurs in it
C20_Witness ==
    /\ Verified
    /\ Solution = <<"K", " ", ">", " ", "2">>
    /\ ParticipantCode = <<"b", " ", ">", " ", "2">>
    /\ ~Contains(_normalize_code(ParticipantCode), _normalize_code(Solution))
    /\ ~_fuzzy_match(_normalize_code(Solution), _normalize_code(ParticipantCode))
    /\ PairsOccur
    /\ det.result = "True"

(***************************************************************************)
(* C21                                                                     *)
(***************************************************************************)
\* the multi-character tokens of a text as it is written: comments aside,
\* white space kept as the separator it is, letters in lower case
WrittenTokens(text) == extract_tokens(DropComments(text, FALSE))

TokensFound(solution, code) ==
    LET st == WrittenTokens(solution)
        ct == WrittenTokens(code)
    IN  Cardinality({k \in DOMAIN st : \E m \in DOMAIN ct : ct[m] = st[k]})

Compared == phase = "matched" /\ det.called

\* C21: when the solution has N >= 2 multi-character tokens and the diff
\* text contains at least 80% of them (letter case, white space and
\* comments aside), the comparison accepts: the token-overlap step matches
\* unless the substring step before it already has.
C21_TokenOverlap ==
    (Compared /\ det.step = "none") =>
        LET N == Len(WrittenTokens(det.solution))
        IN  ~(N >= 2 /\ 5 * TokensFound(det.solution, det.participant_code) >= 4 * N)

(***************************************************************************)
(* C22                                                                     *)
(***************************************************************************)
\* raw[i..j] is a brace-delimited part without braces inside that holds a
\* quoted part (two quote marks)
BraceSpan(raw, i, j) ==
    /\ i < j
    /\ raw[i] = "{"
    /\ raw[j] = "}"
    /\ \A k \in (i + 1)..(j - 1) : raw[k] \notin {"{", "}"}
    /\ Cardinality({k \in (i + 1)..(j - 1) : raw[k] = Q}) >= 2

BraceSpans(raw) ==
    {ij \in (1..Len(raw)) \X (1..Len(raw)) : BraceSpan(raw, ij[1], ij[2])}

\* the model answered with a text
LlmAnswered ==
    /\ phase = "answered"
    /\ gwReq.det = "None"
    /\ gwReq.llm.kind = "text"

\* what log_bug_fix records for team 7 when verify_with_llm brings back
\* the gateway's response
RecordedFor(resp) ==
    BuildSubmission(T7,
                    CHOOSE b \in 0..MaxBugId : BugKey(b) = gwReq.bug_to_check,
                    Nlp, Commit1,
                    [code |-> CodeSome, desc |-> TRUE,
                     res |-> verify_with_llm_result(resp),
                     now |-> <<0, 0>>, dbFail |-> FALSE])

\* C22: clean_llm_response returns the raw text as it is when it parses as
\* JSON; otherwise the first brace-delimited part without braces inside
\* that holds a quoted part; otherwise the fixed object
\* {"error": "invalid_response"}, and the tracker records that answer as a
\* rejection: verified false, 0 points.
C22_CleanedAnswer ==
    LlmAnswered =>
        LET raw == gwReq.llm.content
            out == gwResp.verification_result
            spans == BraceSpans(raw)
        IN  /\ gwResp.status = 200
            /\ IsJson(raw) => out = raw
            /\ (~IsJson(raw) /\ spans /= {}) =>
                   \E ij \in spans :
                       /\ \A c \in spans : ij[1] <= c[1]
                       /\ out = SubSeq(raw, ij[1], ij[2])
            /\ (~IsJson(raw) /\ spans = {}) =>
                   /\ out = <<"{", Q, "e", "r", "r", "o", "r", Q, ":", " ", Q,
                              "i", "n", "v", "a", "l", "i", "d", "_",
                              "r", "e", "s", "p", "o", "n", "s", "e", Q, "}">>
                   /\ ~RecordedFor(gwResp).verified
                   /\ RecordedFor(gwResp).points = 0
                   /\ RecordedFor(gwResp).verification_method = "llm"

\* the answer "no" is no JSON and has no braces: the fixed object comes
\* back and the tracker records a rejection
C22_Witness ==
    /\ LlmAnswered
    /\ gwReq.llm.content = <<"n", "o">>
    /\ gwReq.bug_to_check = BugKey(1)
    /\ gwResp.verification_result = InvalidResponse
    /\ ~RecordedFor(gwResp).verified
    /\ RecordedFor(gwResp).points = 0

(***************************************************************************)
(* C23                                                                     *)
(***************************************************************************)
\* C23: every stored submission carries 10 points when it is verified and
\* 0 points when it is not, after any sequence of webhook submissions and
\* manual re-verifications.
C23_PointsFollowVerdict ==
    \A key \in DOMAIN bugFixes :
        bugFixes[key].points = (IF bugFixes[key].verified THEN 10 ELSE 0)

(***************************************************************************)
(* C24                                                                     *)
(***************************************************************************)
\* C24: for one gateway response text and one bug id the webhook path and
\* the manual re-verification path compute the same verified flag: the
\* flag a call has written is the flag the other path computes from the
\* text that call has stored.
C24_SameFlagOnBothPaths ==
    /\ (lastCall.op = "manually_verify_bug" /\ lastCall.gateway_called) =>
           lastCall.written.verified =
               WebhookAccepts(lastCall.written.llm_verification, lastCall.bug_id)
    /\ (lastCall.op = "log_bug_fix" /\ lastCall.gateway_called) =>
           lastCall.written.verified =
               ManualAccepts(lastCall.written.llm_verification, lastCall.bug_id)

DifferentTeams == threads[1].call.team_id /= threads[2].call.team_id

\* C26: when two webhook requests for different teams interleave and both
\* have finished, leaderboard.json is what update_leaderboard computes from
\* the progress files then on disk: no team is missing from it or stale.
C26_LeaderboardOfFinalProgress ==
    (Quiescent /\ DifferentTeams) =>
        /\ FileIsRecomputation
        /\ leaderboard = AssignRanks(list_sort(LoadEntries(World)))

(***************************************************************************)
(* C27                                                                     *)
(***************************************************************************)
\* the lines of the parsed diff on one side ("added" or "removed")
AddedLines(code_changes) ==
    Flatten([f \in DOMAIN code_changes.files |->
                Flatten([h \in DOMAIN code_changes.files[f].changes |->
                            code_changes.files[f].changes[h].added])])

RemovedLines(code_changes) ==
    Flatten([f \in DOMAIN code_changes.files |->
                Flatten([h \in DOMAIN code_changes.files[f].changes |->
                            code_changes.files[f].changes[h].removed])])

OccursIn(text, lines) == \E i \in DOMAIN lines : Contains(lines[i], text)

\* the documented solution stands in a removed line and in no added line
SolutionOnlyRemoved ==
    /\ OccursIn(det.bug_description.solution, RemovedLines(det.code_changes))
    /\ ~OccursIn(det.bug_description.solution, AddedLines(det.code_changes))

\* C27: the deterministic true verdict depends only on text the commit
\* added: when the solution text occurs only in removed lines of the parsed
\* diff, the gateway does not answer with a deterministic "true".
C27_OnlyAddedTextCounts ==
    (phase \in {"judged", "logged"} /\ SolutionOnlyRemoved) =>
        ~(gwResp.method = "deterministic" /\ det.result = "True")

(***************************************************************************)
(* C28                                                                     *)
(***************************************************************************)
\* C28: a row for (team, bug) is in the manual-review collection only if
\* the submission stored for that pair is verified.
C28_ReviewRowsAreVerified ==
    \A team_id \in Teams, bug_id \in Bugs :
        DocumentId(team_id, bug_id) \in DOMAIN dbManualReview =>
            /\ <<team_id, bug_id>> \in DOMAIN bugFixes
            /\ bugFixes[<<team_id, bug_id>>].verified

(***************************************************************************)
(* C29                                                                     *)
(***************************************************************************)
\* C29: leaderboard.json as update_leaderboard leaves it has one row for
\* each team with a progress file and the ranks 1..n, each once, also when
\* teams tie on points and on the time of the last submission.
C29_RanksOneToN ==
    LET n == Cardinality(DOMAIN progress)
    IN  /\ Len(leaderboard) = n
        /\ {leaderboard[i].rank : i \in DOMAIN leaderboard} = 1..n
        /\ \A team_id \in DOMAIN progress :
               Cardinality({i \in DOMAIN leaderboard :
                               leaderboard[i].team_id = team_id}) = 1

\* two teams with the same points and the same time of last submission
\* hold the ranks 1 and 2
C29_Witness ==
    /\ Len(leaderboard) = 2
    /\ leaderboard[1].team_id /= leaderboard[2].team_id
    /\ leaderboard[1].total_points = leaderboard[2].total_points
    /\ leaderboard[1].total_points > 0
    /\ leaderboard[1].last_submission = leaderboard[2].last_submission
    /\ leaderboard[1].rank = 1
    /\ leaderboard[2].rank = 2

(***************************************************************************)
(* C30                                                                     *)
(***************************************************************************)
\* no file and no collection of the tracker changes in the step
StoredStateUnchanged ==
    /\ bugFixes' = bugFixes
    /\ progress' = progress
    /\ leaderboard' = leaderboard
    /\ dbLeaderboard' = dbLeaderboard
    /\ dbManualReview' = dbManualReview

\* C30: a manual re-verification answers 404 when the pair has no
\* submission file, and 400 when the stored submission has no code changes
\* or the bug has no description; in both cases the files stay as they are
\* and the verification gateway is not called.
C30_FailedReverifyChangesNothing ==
    [][ManuallyVerifies
       => LET key == <<lastCall'.team_id, lastCall'.bug_id>>
          IN  /\ key \notin DOMAIN bugFixes
                   => /\ response'.code = 404
                      /\ StoredStateUnchanged
                      /\ ~lastCall'.gateway_called
              /\ (/\ key \in DOMAIN bugFixes
                  /\ \/ ~Truthy(bugFixes[key].code_changes)
                     \/ ~lastCall'.desc)
                   => /\ response'.code = 400
                      /\ StoredStateUnchanged
                      /\ ~lastCall'.gateway_called]_vars

\* a re-verification of a stored submission that was verified, for a bug
\* whose description is gone, was answered 400 and the file is still
\* verified
C30_Witness ==
    /\ lastCall.op = "manually_verify_bug"
    /\ response.code = 400
    /\ ~lastCall.gateway_called
    /\ <<lastCall.team_id, lastCall.bug_id>> \in DOMAIN bugFixes
    /\ bugFixes[<<lastCall.team_id, lastCall.bug_id>>].verified

====
